---- MODULE Spec2Model ----
(***************************************************************************)
(* Design-tree post-processing of Figma-Context-MCP: the Global Variable  *)
(* Store (findOrCreateVar), the ID Compressor (shortenGlobalVarIds) and    *)
(* the Hierarchy Flattener (flattenNodes).                                 *)
(*                                                                         *)
(* A JavaScript string is a sequence of one-character strings, so that     *)
(* prefixes, concatenation, case folding and pattern matching are          *)
(* computed, not assumed.  A JavaScript object whose enumeration order     *)
(* matters (globalVars.styles) is a sequence of [id, value] entries in     *)
(* Object.entries order; one whose order is never read (idMap, prefixMap,  *)
(* counters) is a function.  A node is a record whose optional fields      *)
(* are present or absent in its DOMAIN.  The keys and references modelled  *)
(* are neither integer-like (which Object.entries would move to the        *)
(* front) nor names that every object inherits from Object.prototype.      *)
(*                                                                         *)
(* SpecShorten runs shortenGlobalVarIds on every table and tree within the *)
(* bounds, SpecFlatten runs flattenNodes on every forest within the        *)
(* bounds, and SpecVars runs a parse's sequence of findOrCreateVar calls.  *)
(***************************************************************************)
EXTENDS Integers, Sequences, FiniteSets, TLC

VARIABLES pc, nodes, globalVars, shortened, flat, issued, requests, tmpDir, config,
          sseTransport

vars == <<pc, nodes, globalVars, shortened, flat, issued, requests, tmpDir, config,
          sseTransport>>

(***************************************************************************)
(* Bounds of the model                                                     *)
(***************************************************************************)
MaxStyles == 4      \* entries of globalVars.styles given to shortenGlobalVarIds
MaxRefNodes == 2    \* nodes of the tree given to shortenGlobalVarIds
MaxNodes == 4       \* nodes of the forest given to flattenNodes
MaxCalls == 3       \* findOrCreateVar calls within one parse
NumNonces == 2      \* nonces generateVarId can draw

(***************************************************************************)
(* Characters and strings                                                  *)
(***************************************************************************)
LowerAlphabet ==
    <<"a", "b", "c", "d", "e", "f", "g", "h", "i", "j", "k", "l", "m",
      "n", "o", "p", "q", "r", "s", "t", "u", "v", "w", "x", "y", "z">>

UpperAlphabet ==
    <<"A", "B", "C", "D", "E", "F", "G", "H", "I", "J", "K", "L", "M",
      "N", "O", "P", "Q", "R", "S", "T", "U", "V", "W", "X", "Y", "Z">>

DigitChars == <<"0", "1", "2", "3", "4", "5", "6", "7", "8", "9">>

Range(s) == {s[i] : i \in DOMAIN s}

IsLetter(c) == c \in Range(LowerAlphabet) \cup Range(UpperAlphabet)

IsDigit(c) == c \in Range(DigitChars)

IsAlnum(c) == IsLetter(c) \/ IsDigit(c)

\* String.prototype.toLowerCase, one character
ToLowerChar(c) ==
    IF c \in Range(UpperAlphabet)
    THEN LowerAlphabet[CHOOSE i \in DOMAIN UpperAlphabet : UpperAlphabet[i] = c]
    ELSE c

\* String.prototype.toLowerCase
ToLowerCase(s) == [i \in DOMAIN s |-> ToLowerChar(s[i])]

\* Number -> decimal string, as the template literal `${n}` prints it
RECURSIVE NumToStr(_)
NumToStr(n) ==
    IF n < 10 THEN <<DigitChars[n + 1]>>
    ELSE NumToStr(n \div 10) \o <<DigitChars[(n % 10) + 1]>>

(***************************************************************************)
(* compressor.ts: shortenGlobalVarIds                                      *)
(***************************************************************************)

\* idPattern = /^([a-zA-Z]+)_([a-zA-Z0-9]+)$/ : the positions of the "_" that
\* split the id into a non-empty run of letters and a non-empty run of
\* letters and digits (at most one position, the second run has no "_")
IdPatternSplits(id) ==
    {k \in DOMAIN id :
        /\ id[k] = "_"
        /\ k > 1
        /\ k < Len(id)
        /\ \A i \in 1 .. (k - 1) : IsLetter(id[i])
        /\ \A i \in (k + 1) .. Len(id) : IsAlnum(id[i])}

\* originalId.match(idPattern): matched says whether it matched, prefix is match[1]
IdMatch(id) ==
    IF IdPatternSplits(id) = {}
    THEN [matched |-> FALSE, prefix |-> <<>>]
    ELSE [matched |-> TRUE,
          prefix |-> SubSeq(id, 1, (CHOOSE k \in IdPatternSplits(id) : TRUE) - 1)]

FallbackSuffix == <<"_", "f", "a", "l", "l", "b", "a", "c", "k">>

UnkPrefix == <<"u", "n", "k">>

UnknownName == <<"u", "n", "k", "n", "o", "w", "n">>

\* A JavaScript object is the list of its <<key, value>> pairs in insertion
\* order; a value is a number <<"number", n>> or undefined <<"undefined">>
JsNumber(n) == <<"number", n>>

JsUndefined == <<"undefined">>

\* The names every object written {} inherits from Object.prototype:
\* constructor, hasOwnProperty, isPrototypeOf, propertyIsEnumerable, toLocaleString, toString,
\* valueOf, __proto__, __defineGetter__, __defineSetter__, __lookupGetter__, __lookupSetter__
ObjectPrototypeNames ==
    {<<"c", "o", "n", "s", "t", "r", "u", "c", "t", "o", "r">>,
     <<"h", "a", "s", "O", "w", "n", "P", "r", "o", "p", "e", "r", "t", "y">>,
     <<"i", "s", "P", "r", "o", "t", "o", "t", "y", "p", "e", "O", "f">>,
     <<"p", "r", "o", "p", "e", "r", "t", "y", "I", "s", "E", "n", "u", "m", "e", "r", "a", "b", "l", "e">>,
     <<"t", "o", "L", "o", "c", "a", "l", "e", "S", "t", "r", "i", "n", "g">>,
     <<"t", "o", "S", "t", "r", "i", "n", "g">>,
     <<"v", "a", "l", "u", "e", "O", "f">>,
     <<"_", "_", "p", "r", "o", "t", "o", "_", "_">>,
     <<"_", "_", "d", "e", "f", "i", "n", "e", "G", "e", "t", "t", "e", "r", "_", "_">>,
     <<"_", "_", "d", "e", "f", "i", "n", "e", "S", "e", "t", "t", "e", "r", "_", "_">>,
     <<"_", "_", "l", "o", "o", "k", "u", "p", "G", "e", "t", "t", "e", "r", "_", "_">>,
     <<"_", "_", "l", "o", "o", "k", "u", "p", "S", "e", "t", "t", "e", "r", "_", "_">>}

ProtoName == <<"_", "_", "p", "r", "o", "t", "o", "_", "_">>

\* The value of an inherited property: a function, or Object.prototype for
\* __proto__; never a string and never falsy
Inherited(name) == <<"inherited">> \o name

\* key in obj, for an object written {}
Has(obj, key) == key \in DOMAIN obj \/ key \in ObjectPrototypeNames

\* obj[key], for an object written {}
Get(obj, key) ==
    IF key \in DOMAIN obj THEN obj[key]
    ELSE IF key \in ObjectPrototypeNames THEN Inherited(key)
    ELSE JsUndefined

\* A value that is not a string: an object or an array given in place of a
\* reference
InlineValue == <<"object">>

\* typeof value === "string", for the values a reference field can hold: a
\* string, an object or array, or an inherited function
IsJsString(value) == value = <<>> \/ value[1] \notin {"object", "inherited"}

\* obj[key] = value on an object used as a map
MapPut(map, key, value) == (key :> value) @@ map

\* obj[key] = value for a string value, on an object written {}: the setter
\* of __proto__ ignores a value that is not an object, and no entry is made
Put(obj, key, value) == IF key = ProtoName THEN obj ELSE MapPut(obj, key, value)

\* obj[key] = value on an object whose entry order is observed: an existing
\* key keeps its position and gets the new value, a new key goes last
TablePut(table, key, value) ==
    IF \E i \in DOMAIN table : table[i].id = key
    THEN [i \in DOMAIN table |->
            IF table[i].id = key THEN [id |-> key, value |-> value] ELSE table[i]]
    ELSE Append(table, [id |-> key, value |-> value])

TableKeys(table) == {table[i].id : i \in DOMAIN table}

TableGet(table, key) == table[CHOOSE i \in DOMAIN table : table[i].id = key].value

\* The while loop "Find the shortest unique prefix": generated is the short
\* prefix found, or the empty string when the loop ran off the end (null)
RECURSIVE FindShortPrefix(_, _, _)
FindShortPrefix(prefixMap, originalLowerPrefix, charIndex) ==
    IF charIndex >= Len(originalLowerPrefix)
    THEN [generated |-> <<>>, prefixMap |-> prefixMap]
    ELSE LET potentialShortPrefix == SubSeq(originalLowerPrefix, 1, charIndex + 1)
             existingMapping == Get(prefixMap, potentialShortPrefix)
         IN  IF existingMapping = JsUndefined
             THEN [generated |-> potentialShortPrefix,
                   prefixMap |-> MapPut(prefixMap, potentialShortPrefix, originalLowerPrefix)]
             ELSE IF existingMapping = originalLowerPrefix
             THEN [generated |-> potentialShortPrefix, prefixMap |-> prefixMap]
             ELSE FindShortPrefix(prefixMap, originalLowerPrefix, charIndex + 1)

\* if (match && match[1]) {...} else {...}: the generated short prefix of one
\* id and the prefix map after it
GeneratePrefix(prefixMap, originalId) ==
    LET match == IdMatch(originalId)
    IN  IF match.matched
        THEN LET originalLowerPrefix == ToLowerCase(match.prefix)
                 found == FindShortPrefix(prefixMap, originalLowerPrefix, 0)
             IN  IF found.generated = <<>>
                 THEN [generated |-> originalLowerPrefix \o FallbackSuffix,
                       prefixMap |-> MapPut(found.prefixMap,
                                            originalLowerPrefix \o FallbackSuffix,
                                            originalLowerPrefix)]
                 ELSE found
        ELSE [generated |-> UnkPrefix,
              prefixMap |-> IF Get(prefixMap, UnkPrefix) # JsUndefined
                            THEN prefixMap
                            ELSE MapPut(prefixMap, UnkPrefix, UnknownName)]

\* BumpCounter with the increment lost: every id of a prefix gets number 1
BumpCounterReset(counters, generatedShortPrefix) ==
    MapPut(counters, generatedShortPrefix, 1)

\* counters[generatedShortPrefix] after "if (!(p in counters)) counters[p] = 0;
\* counters[p]++" (a generated short prefix is never a name counters
\* inherits: the loop takes no such name, and unk and the _fallback forms
\* are none)
BumpCounter(counters, generatedShortPrefix) ==
    IF generatedShortPrefix \in DOMAIN counters
    THEN MapPut(counters, generatedShortPrefix, counters[generatedShortPrefix] + 1)
    ELSE MapPut(counters, generatedShortPrefix, 1)

\* shortId = `${generatedShortPrefix}${counters[generatedShortPrefix]}`
ShortId(generatedShortPrefix, counter) == generatedShortPrefix \o NumToStr(counter)

\* One iteration of "for (const [originalId, styleValue] of Object.entries(...))"
ShortenEntry(st, entry) ==
    LET gen == GeneratePrefix(st.prefixMap, entry.id)
        counters == BumpCounter(st.counters, gen.generated)
        shortId == ShortId(gen.generated, counters[gen.generated])
    IN  [idMap |-> Put(st.idMap, entry.id, shortId),
         styles |-> TablePut(st.styles, shortId, entry.value),
         counters |-> counters,
         prefixMap |-> gen.prefixMap]

\* The whole for loop over Object.entries(globalVars.styles), from entry i on
RECURSIVE ShortenLoop(_, _, _)
ShortenLoop(st, styles, i) ==
    IF i > Len(styles) THEN st
    ELSE ShortenLoop(ShortenEntry(st, styles[i]), styles, i + 1)

PropertiesToUpdate == {"fills", "strokes", "effects", "layout", "textStyle", "styles"}

\* RewriteProps with "styles" left out of propertiesToUpdate
RewritePropsNoStyles(node, idMap) ==
    [f \in DOMAIN node |->
        IF f \in (PropertiesToUpdate \ {"styles"}) /\ IsJsString(node[f]) /\ Has(idMap, node[f])
        THEN Get(idMap, node[f])
        ELSE node[f]]

\* for (const prop of propertiesToUpdate) {...}: the node with each reference
\* field that is a key of idMap replaced by its short id
RewriteProps(node, idMap) ==
    [f \in DOMAIN node |->
        IF f \in PropertiesToUpdate /\ IsJsString(node[f]) /\ Has(idMap, node[f])
        THEN Get(idMap, node[f])
        ELSE node[f]]

\* UpdateNodeIds without the recursion into children
UpdateNodeIdsTopOnly(node, idMap) == RewriteProps(node, idMap)

RECURSIVE UpdateNodeIds(_, _)
UpdateNodeIds(node, idMap) ==
    LET newNode == RewriteProps(node, idMap)
    IN  IF "children" \in DOMAIN newNode /\ Len(newNode["children"]) > 0
        THEN [f \in DOMAIN newNode |->
                IF f = "children"
                THEN [i \in DOMAIN newNode["children"] |->
                        UpdateNodeIds(newNode["children"][i], idMap)]
                ELSE newNode[f]]
        ELSE newNode

\* shortenGlobalVarIds(nodes, globalVars)
ShortenGlobalVarIds(ns, gv) ==
    LET st == ShortenLoop([idMap |-> <<>>, styles |-> <<>>,
                           counters |-> <<>>, prefixMap |-> <<>>],
                          gv.styles, 1)
    IN  [shortenedNodes |-> [i \in DOMAIN ns |-> UpdateNodeIds(ns[i], st.idMap)],
         shortenedGlobalVars |-> [styles |-> st.styles],
         idMap |-> st.idMap,
         prefixMap |-> st.prefixMap]

(***************************************************************************)
(* Inputs                                                                  *)
(***************************************************************************)

\* Long ids offered as keys of globalVars.styles and as node references:
\* u_1, un_1 and unk_1 have prefixes that are leading substrings of one
\* another, U_2 has the prefix of u_1 in upper case, and u1 does not match
\* idPattern (and reads like a short id)
LongIds ==
    <<<<"u", "_", "1">>,
      <<"u", "n", "_", "1">>,
      <<"u", "n", "k", "_", "1">>,
      <<"U", "_", "2">>,
      <<"u", "1">>>>

\* The i-th style value: the object {a: i}
SampleValue(i) == <<<<<<"a">>, JsNumber(i)>>>>

\* The tables of at most n entries with distinct keys; values are pairwise
\* different, as findOrCreateVar stores a value once
StyleTables(n) ==
    UNION {{[i \in 1 .. k |-> [id |-> ks[i], value |-> SampleValue(i)]] :
                ks \in {f \in [1 .. k -> Range(LongIds)] :
                            \A i, j \in 1 .. k : i # j => f[i] # f[j]}} :
           k \in 0 .. n}

\* The keys of globalVars.styles in the tests of shortenGlobalVarIds, in
\* table order: layout_C71WG5, fill_PNVRKQ, style_WMXDFX; fill_123ABC,
\* fill_456DEF, fill_789GHI; fill_123, frame_456, font_789
TestIds ==
    <<<<<<"l", "a", "y", "o", "u", "t", "_", "C", "7", "1", "W", "G", "5">>,
        <<"f", "i", "l", "l", "_", "P", "N", "V", "R", "K", "Q">>,
        <<"s", "t", "y", "l", "e", "_", "W", "M", "X", "D", "F", "X">>>>,
      <<<<"f", "i", "l", "l", "_", "1", "2", "3", "A", "B", "C">>,
        <<"f", "i", "l", "l", "_", "4", "5", "6", "D", "E", "F">>,
        <<"f", "i", "l", "l", "_", "7", "8", "9", "G", "H", "I">>>>,
      <<<<"f", "i", "l", "l", "_", "1", "2", "3">>,
        <<"f", "r", "a", "m", "e", "_", "4", "5", "6">>,
        <<"f", "o", "n", "t", "_", "7", "8", "9">>>>>>

\* The tables of the tests
TestTables ==
    {[i \in DOMAIN TestIds[t] |-> [id |-> TestIds[t][i], value |-> SampleValue(i)]] :
        t \in DOMAIN TestIds}

\* A table whose key is __proto__ (as JSON.parse makes one), alone and next
\* to other keys
ProtoTables ==
    {[i \in DOMAIN ks |-> [id |-> ks[i], value |-> SampleValue(i)]] :
        ks \in {<<ProtoName>>, <<LongIds[1], ProtoName>>, <<ProtoName, LongIds[5]>>}}

\* The table of the ids c_1, co_1, con_1, ..., constructor_1: each prefix is
\* the next leading substring of constructor
ConstructorPrefix == <<"c", "o", "n", "s", "t", "r", "u", "c", "t", "o", "r">>

ChainTable ==
    [i \in DOMAIN ConstructorPrefix |->
        [id |-> SubSeq(ConstructorPrefix, 1, i) \o <<"_", "1">>, value |-> SampleValue(i)]]

PropSeq == <<"fills", "strokes", "effects", "layout", "textStyle", "styles">>

\* The values offered as node references: the long ids, two names an object
\* inherits, constructor and __proto__, and a value that is not a string
RefValues == LongIds \o <<<<"c", "o", "n", "s", "t", "r", "u", "c", "t", "o", "r">>, ProtoName, InlineValue>>

\* The reference fields of a node, by choice o: none for o = 0; otherwise the
\* j-th property holds the ((o + j) mod 9)-th reference value, and is absent
\* when that index is 0
RefFields(o) ==
    IF o = 0 THEN <<>>
    ELSE LET ref(j) == (o + j) % (Len(RefValues) + 1)
             present == {j \in DOMAIN PropSeq : ref(j) # 0}
         IN  [f \in {PropSeq[j] : j \in present} |->
                RefValues[ref(CHOOSE j \in present : PropSeq[j] = f)]]

RefChoices == 0 .. Len(RefValues) + 1

NodeIds ==
    <<<<"4", "1", "7", ":", "6", "4", "1">>,
      <<"4", "1", "7", ":", "6", "4", "2">>,
      <<"4", "1", "7", ":", "6", "4", "6">>,
      <<"4", "1", "7", ":", "6", "4", "7">>,
      <<"1", ":", "2">>,
      <<"I", "1", ":", "2", ";", "3", ":", "4">>>>

\* The type of the node of each id (FRAME, RECTANGLE, GROUP and TEXT for the
\* four nodes of the test's tree)
NodeTypes == <<"FRAME", "RECTANGLE", "GROUP", "TEXT", "FRAME", "INSTANCE">>

TypeField(id) ==
    "type" :> NodeTypes[CHOOSE i \in DOMAIN NodeIds : NodeIds[i] = id]

\* Fields of a node that are no references: its type, a name and an opacity
OtherFields(id) ==
    TypeField(id) @@ ("name" :> <<"B", "o", "x">>) @@ ("opacity" :> JsNumber(1))

\* A node: its id, its other fields, and a children field when kids is not
\* empty
MakeNode(id, fields, kids) ==
    IF kids = <<>>
    THEN ("id" :> id) @@ fields
    ELSE ("id" :> id) @@ ("children" :> kids) @@ fields

\* All forests whose nodes, in pre-order, carry the ids of the sequence ids;
\* fieldsOf gives the other fields of the node of each id
RECURSIVE ForestsOf(_, _)
ForestsOf(ids, fieldsOf) ==
    IF ids = <<>> THEN {<<>>}
    ELSE UNION {
            {<<MakeNode(ids[1], fieldsOf[ids[1]], kids)>> \o rest :
                kids \in ForestsOf(SubSeq(ids, 2, k + 1), fieldsOf),
                rest \in ForestsOf(SubSeq(ids, k + 2, Len(ids)), fieldsOf)} :
            k \in 0 .. (Len(ids) - 1)}

NoResult == <<>>

\* private sseTransport: SSEServerTransport | null = null
NoTransport == [id |-> 0, client |-> "null"]

(***************************************************************************)
(* Specification of the ID Compressor                                      *)
(***************************************************************************)
InitShorten ==
    /\ pc = "shorten"
    /\ \E table \in StyleTables(MaxStyles) \cup TestTables \cup ProtoTables \cup {ChainTable} :
          globalVars = [styles |-> table, icons |-> <<>>]
    /\ \E n \in 0 .. MaxRefNodes :
          \E choice \in [Range(SubSeq(NodeIds, 1, n)) -> RefChoices] :
              nodes \in ForestsOf(SubSeq(NodeIds, 1, n),
                                  [id \in DOMAIN choice |->
                                      RefFields(choice[id]) @@ OtherFields(id)])
    /\ shortened = NoResult
    /\ flat = NoResult
    /\ issued = <<>>
    /\ requests = <<>>
    /\ tmpDir = <<>>
    /\ config = <<>>
    /\ sseTransport = NoTransport

DoShorten ==
    /\ pc = "shorten"
    /\ shortened' = ShortenGlobalVarIds(nodes, globalVars)
    /\ pc' = "shortened"
    /\ UNCHANGED <<nodes, globalVars, flat, issued, requests, tmpDir, config, sseTransport>>

\* shortenGlobalVarIds applied a second time, to its own output; issued
\* holds the result
ShortenAgain ==
    /\ pc = "shortened"
    /\ issued' = <<ShortenGlobalVarIds(shortened.shortenedNodes, shortened.shortenedGlobalVars)>>
    /\ pc' = "reshortened"
    /\ UNCHANGED <<nodes, globalVars, shortened, flat, requests, tmpDir, config, sseTransport>>

NextShorten == DoShorten \/ ShortenAgain

SpecShorten == InitShorten /\ [][NextShorten]_vars

(***************************************************************************)
(* Reading a forest                                                        *)
(***************************************************************************)
Kids(node) == IF "children" \in DOMAIN node THEN node["children"] ELSE <<>>

\* The addresses of the nodes of a forest: <<i>> is the i-th root, p \o <<j>>
\* the j-th child of the node at p
RECURSIVE PathsOf(_)
PathsOf(forest) ==
    UNION {{<<i>>} \cup {<<i>> \o p : p \in PathsOf(Kids(forest[i]))} :
           i \in DOMAIN forest}

RECURSIVE NodeAt(_, _)
NodeAt(forest, path) ==
    IF Len(path) = 1 THEN forest[path[1]]
    ELSE NodeAt(Kids(forest[path[1]]), Tail(path))

RefPropsOf(node) == PropertiesToUpdate \cap DOMAIN node

(***************************************************************************)
(* Properties of the ID Compressor                                         *)
(***************************************************************************)
Shortened == pc = "shortened"

\* C1: after shortenGlobalVarIds, every reference field of every node, at any
\* depth, that held a key of globalVars.styles holds idMap[that key], and the
\* shortened table holds at that short id the value the original table held
\* at the long id.
C1_RewriteTotal ==
    Shortened =>
        /\ PathsOf(shortened.shortenedNodes) = PathsOf(nodes)
        /\ \A p \in PathsOf(nodes) :
             \A f \in RefPropsOf(NodeAt(nodes, p)) :
                LET old == NodeAt(nodes, p)[f]
                    new == NodeAt(shortened.shortenedNodes, p)[f]
                IN  old \in TableKeys(globalVars.styles) =>
                        /\ new = Get(shortened.idMap, old)
                        /\ new \in TableKeys(shortened.shortenedGlobalVars.styles)
                        /\ TableGet(shortened.shortenedGlobalVars.styles, new)
                              = TableGet(globalVars.styles, old)

\* C1 witness: a child node referenced a key of the table through "styles"
\* and a root referenced one through another field, and the rewrite ran.
C1_Witness ==
    /\ Shortened
    /\ \E p \in PathsOf(nodes) :
          /\ Len(p) = 2
          /\ "styles" \in DOMAIN NodeAt(nodes, p)
          /\ NodeAt(nodes, p)["styles"] \in TableKeys(globalVars.styles)
    /\ \E f \in RefPropsOf(nodes[1]) \ {"styles"} :
          nodes[1][f] \in TableKeys(globalVars.styles)

\* C2: shortenGlobalVarIds maps no two distinct long ids to the same short
\* id: idMap and the shortened table have as many entries as
\* globalVars.styles, and every value is still there under its short id.
C2_Injective ==
    Shortened =>
        /\ \A a, b \in DOMAIN shortened.idMap :
              a # b => shortened.idMap[a] # shortened.idMap[b]
        /\ DOMAIN shortened.idMap = TableKeys(globalVars.styles)
        /\ Cardinality(DOMAIN shortened.idMap) = Len(globalVars.styles)
        /\ Len(shortened.shortenedGlobalVars.styles) = Len(globalVars.styles)
        /\ \A i \in DOMAIN globalVars.styles :
              TableGet(shortened.shortenedGlobalVars.styles,
                       shortened.idMap[globalVars.styles[i].id])
                  = globalVars.styles[i].value

\* The short prefix an issued short id was built from: the id without its
\* trailing digits (no generated prefix ends in a digit)
RECURSIVE StripDigits(_)
StripDigits(s) ==
    IF s # <<>> /\ IsDigit(s[Len(s)]) THEN StripDigits(SubSeq(s, 1, Len(s) - 1))
    ELSE s

EndsWithFallback(s) ==
    /\ Len(s) > Len(FallbackSuffix)
    /\ SubSeq(s, Len(s) - Len(FallbackSuffix) + 1, Len(s)) = FallbackSuffix

\* C2 witness: one table held a matching id, a second id of the same prefix,
\* an id that does not match and one that took the _fallback path.
C2_Witness ==
    /\ Shortened
    /\ \E a, b, c, d \in DOMAIN shortened.idMap :
          /\ a # b
          /\ IdMatch(a).matched /\ IdMatch(b).matched
          /\ StripDigits(shortened.idMap[a]) = StripDigits(shortened.idMap[b])
          /\ ~IdMatch(c).matched
          /\ EndsWithFallback(StripDigits(shortened.idMap[d]))

\* Decompression: a short id issued in the run is replaced by the long id
\* that idMap sent to it; any other string is left as it is
Decompress(idMap, x) ==
    IF \E a \in DOMAIN idMap : idMap[a] = x
    THEN CHOOSE a \in DOMAIN idMap : idMap[a] = x
    ELSE x

DecompressTable(idMap, table) ==
    [i \in DOMAIN table |->
        [id |-> Decompress(idMap, table[i].id), value |-> table[i].value]]

\* The table comes back: same keys, each with the identical value
TableRoundTrip ==
    DecompressTable(shortened.idMap, shortened.shortenedGlobalVars.styles)
        = globalVars.styles

\* C7 (as stated): replacing every short id by its long id through the
\* inverse of idMap, in the shortened table and in every reference field of
\* every shortened node, gives back the original table and the original
\* node references, for any tree and table.
C7_RoundTripAllRefs ==
    Shortened =>
        /\ TableRoundTrip
        /\ PathsOf(shortened.shortenedNodes) = PathsOf(nodes)
        /\ \A p \in PathsOf(nodes) :
             \A f \in RefPropsOf(NodeAt(nodes, p)) :
                Decompress(shortened.idMap, NodeAt(shortened.shortenedNodes, p)[f])
                    = NodeAt(nodes, p)[f]

\* The round trip restricted to the references that were keys of the table:
\* the original table comes back, and so does every node reference that was
\* a key of the table.
C7_RoundTrip ==
    Shortened =>
        /\ TableRoundTrip
        /\ PathsOf(shortened.shortenedNodes) = PathsOf(nodes)
        /\ \A p \in PathsOf(nodes) :
             \A f \in RefPropsOf(NodeAt(nodes, p)) :
                LET old == NodeAt(nodes, p)[f]
                IN  old \in TableKeys(globalVars.styles)
                    => Decompress(shortened.idMap,
                                  NodeAt(shortened.shortenedNodes, p)[f]) = old

\* A table of several entries was shortened, and a node held a reference
\* that was rewritten and a reference that is not a key of the table.
C7_Witness ==
    /\ Shortened
    /\ Len(globalVars.styles) >= 3
    /\ \E p \in PathsOf(nodes) :
          \E f, g \in RefPropsOf(NodeAt(nodes, p)) :
              /\ NodeAt(nodes, p)[f] \in TableKeys(globalVars.styles)
              /\ NodeAt(shortened.shortenedNodes, p)[f] # NodeAt(nodes, p)[f]
              /\ NodeAt(nodes, p)[g] \notin TableKeys(globalVars.styles)

\* The original prefix an id is filed under: its lower-cased letter prefix,
\* or none when the id does not match idPattern
OriginOf(id) ==
    IF IdMatch(id).matched
    THEN <<"prefix", ToLowerCase(IdMatch(id).prefix)>>
    ELSE <<"unmatched">>

\* C8: within one run no generated short prefix stands for two distinct
\* original prefixes: all ids issued under one short prefix come from the
\* same original lower-cased prefix, ids that do not match the pattern
\* (filed under unk) included.
C8_PrefixUnique ==
    Shortened =>
        \A a, b \in DOMAIN shortened.idMap :
            StripDigits(shortened.idMap[a]) = StripDigits(shortened.idMap[b])
                => OriginOf(a) = OriginOf(b)

(***************************************************************************)
(* compressor.ts: flattenNodes                                             *)
(***************************************************************************)

\* Array.prototype.join
RECURSIVE Join(_, _)
Join(strs, sep) ==
    IF strs = <<>> THEN <<>>
    ELSE IF Len(strs) = 1 THEN strs[1]
    ELSE strs[1] \o sep \o Join(Tail(strs), sep)

\* const { children, ...nodeWithoutChildren } = node
WithoutChildren(node) == [f \in DOMAIN node \ {"children"} |-> node[f]]

\* children?.length is truthy
HasChildren(node) == "children" \in DOMAIN node /\ Len(node["children"]) > 0

RECURSIVE BuildPath(_, _)
RECURSIVE MapBuildPath(_, _, _, _)

\* buildPath with the push moved after the visit of the children
BuildPathPushLast(node, flattened) ==
    IF ~HasChildren(node)
    THEN [path |-> node["id"], flattened |-> Append(flattened, WithoutChildren(node))]
    ELSE LET kids == MapBuildPath(node["children"], 1, flattened, <<>>)
         IN  [path |-> node["id"] \o <<"(">> \o Join(kids.paths, <<",">>) \o <<")">>,
              flattened |-> Append(kids.flattened, WithoutChildren(node))]

\* buildPath(node), with the enclosing array flattened passed through: the
\* path string of the node and flattened after the call
BuildPath(node, flattened) ==
    LET pushed == Append(flattened, WithoutChildren(node))
    IN  IF ~HasChildren(node)
        THEN [path |-> node["id"], flattened |-> pushed]
        ELSE LET kids == MapBuildPath(node["children"], 1, pushed, <<>>)
             IN  [path |-> node["id"] \o <<"(">> \o Join(kids.paths, <<",">>) \o <<")">>,
                  flattened |-> kids.flattened]

\* list.map(buildPath) from element i on: the paths, in order, and flattened
MapBuildPath(list, i, flattened, paths) ==
    IF i > Len(list) THEN [paths |-> paths, flattened |-> flattened]
    ELSE LET r == BuildPath(list[i], flattened)
         IN  MapBuildPath(list, i + 1, r.flattened, Append(paths, r.path))

\* The text of the template literal hierarchyText before ${hierarchy}
HierarchyProse ==
    <<"T", "h", "e", " ", "h", "i", "e", "r", "a", "r", "c", "h", "y", " ", "s", "t", "r", "i", "n", "g">> \o
    <<" ", "r", "e", "p", "r", "e", "s", "e", "n", "t", "s", " ", "t", "h", "e", " ", "c", "o", "m", "p">> \o
    <<"l", "e", "t", "e", " ", "n", "o", "d", "e", " ", "s", "t", "r", "u", "c", "t", "u", "r", "e", " ">> \o
    <<"i", "n", " ", "a", " ", "c", "o", "m", "p", "a", "c", "t", " ", "f", "o", "r", "m", "a", "t", ".">> \o
    <<"\n">> \o
    <<" ", " ", "E", "a", "c", "h", " ", "n", "o", "d", "e", " ", "I", "D", " ", "i", "s", " ", "f", "o">> \o
    <<"l", "l", "o", "w", "e", "d", " ", "b", "y", " ", "i", "t", "s", " ", "c", "h", "i", "l", "d", "r">> \o
    <<"e", "n", " ", "i", "n", " ", "p", "a", "r", "e", "n", "t", "h", "e", "s", "e", "s", ",", " ", "c">> \o
    <<"r", "e", "a", "t", "i", "n", "g", " ", "a", " ", "n", "e", "s", "t", "e", "d", " ", "r", "e", "p">> \o
    <<"r", "e", "s", "e", "n", "t", "a", "t", "i", "o", "n", "\n">> \o
    <<" ", " ", "t", "h", "a", "t", " ", "p", "r", "e", "s", "e", "r", "v", "e", "s", " ", "t", "h", "e">> \o
    <<" ", "o", "r", "i", "g", "i", "n", "a", "l", " ", "h", "i", "e", "r", "a", "r", "c", "h", "y", " ">> \o
    <<"w", "h", "i", "l", "e", " ", "e", "l", "i", "m", "i", "n", "a", "t", "i", "n", "g", " ", "t", "h">> \o
    <<"e", " ", "n", "e", "e", "d", " ", "f", "o", "r", " ", "r", "e", "d", "u", "n", "d", "a", "n", "t">> \o
    <<" ", "n", "o", "d", "e", " ", "o", "b", "j", "e", "c", "t", "s", ".", "\n">> \o
    <<" ", " ", "T", "h", "i", "s", " ", "f", "o", "r", "m", "a", "t", " ", "a", "l", "l", "o", "w", "s">> \o
    <<" ", "f", "o", "r", " ", "e", "f", "f", "i", "c", "i", "e", "n", "t", " ", "r", "e", "c", "o", "n">> \o
    <<"s", "t", "r", "u", "c", "t", "i", "o", "n", " ", "o", "f", " ", "t", "h", "e", " ", "t", "r", "e">> \o
    <<"e", " ", "s", "t", "r", "u", "c", "t", "u", "r", "e", " ", "w", "h", "e", "n", " ", "n", "e", "e">> \o
    <<"d", "e", "d", ".", "\n">> \o
    <<" ", " ", "t", "h", "e", " ", "f", "o", "r", "m", "a", "t", " ", "o", "f", " ", "t", "h", "e", " ">> \o
    <<"h", "i", "e", "r", "a", "r", "c", "h", "y", " ", "s", "t", "r", "i", "n", "g", " ", "i", "s", ":">> \o
    <<" ", "r", "o", "o", "t", "1", "_", "i", "d", "(", "c", "h", "i", "l", "d", "1", "_", "i", "d", "(">> \o
    <<"g", "r", "a", "n", "d", "c", "h", "i", "l", "d", "1", "_", "i", "d", "(", "g", "r", "e", "a", "t">> \o
    <<"g", "r", "a", "n", "d", "c", "h", "i", "l", "d", "1", "_", "i", "d", ",", "g", "r", "e", "a", "t">> \o
    <<"g", "r", "a", "n", "d", "c", "h", "i", "l", "d", "2", "_", "i", "d", "(", "l", "e", "a", "f", "1">> \o
    <<"_", "i", "d", ",", "l", "e", "a", "f", "2", "_", "i", "d", ")", ")", ",", "g", "r", "a", "n", "d">> \o
    <<"c", "h", "i", "l", "d", "2", "_", "i", "d", ")", ")", "\n">> \o
    <<" ", " ", "t", "h", "e", " ", "h", "i", "e", "r", "a", "r", "c", "h", "y", " ", "d", "a", "t", "a">> \o
    <<" ", "i", "s", ":", " ">>

\* hierarchyText
HierarchyText(hierarchy) == HierarchyProse \o hierarchy

\* flattenNodes(nodes)
FlattenNodes(ns) ==
    LET r == MapBuildPath(ns, 1, <<>>, <<>>)
        hierarchy == Join(r.paths, <<",">>)
    IN  [hierarchy |-> HierarchyText(hierarchy), nodes |-> r.flattened]

(***************************************************************************)
(* Specification of the Hierarchy Flattener                                *)
(***************************************************************************)

\* The forest with an empty children array on every node that has none
RECURSIVE WithEmptyChildren(_)
WithEmptyChildren(forest) ==
    [i \in DOMAIN forest |->
        IF "children" \in DOMAIN forest[i]
        THEN [f \in DOMAIN forest[i] |->
                IF f = "children" THEN WithEmptyChildren(forest[i][f])
                ELSE forest[i][f]]
        ELSE ("children" :> <<>>) @@ forest[i]]

\* The orders in which the first n node ids can be given to the nodes
IdOrders(n) ==
    {ids \in [1 .. n -> Range(SubSeq(NodeIds, 1, n))] :
        \A i, j \in 1 .. n : i # j => ids[i] # ids[j]}

InitFlatten ==
    /\ pc = "flatten"
    /\ \E n \in 0 .. MaxNodes :
          \E ids \in IdOrders(n) :
              \E forest \in ForestsOf(ids, [id \in Range(ids) |-> TypeField(id)]) :
                  nodes \in {forest, WithEmptyChildren(forest)}
    /\ globalVars = [styles |-> <<>>, icons |-> <<>>]
    /\ shortened = NoResult
    /\ flat = NoResult
    /\ issued = <<>>
    /\ requests = <<>>
    /\ tmpDir = <<>>
    /\ config = <<>>
    /\ sseTransport = NoTransport

DoFlatten ==
    /\ pc = "flatten"
    /\ flat' = FlattenNodes(nodes)
    /\ pc' = "flattened"
    /\ UNCHANGED <<nodes, globalVars, shortened, issued, requests, tmpDir, config, sseTransport>>

NextFlatten == DoFlatten

SpecFlatten == InitFlatten /\ [][NextFlatten]_vars

(***************************************************************************)
(* Properties of the Hierarchy Flattener                                   *)
(***************************************************************************)
Flattened == pc = "flattened"

\* The string of the grammar  node := id | id "(" node ("," node)* ")"  for a
\* forest: top-level nodes joined by commas
RECURSIVE GrammarOf(_)
GrammarOf(forest) ==
    Join([i \in DOMAIN forest |->
            IF Kids(forest[i]) = <<>> THEN forest[i]["id"]
            ELSE forest[i]["id"] \o <<"(">> \o GrammarOf(Kids(forest[i])) \o <<")">>],
         <<",">>)

\* The tree of the test: 417:641 with children 417:642 and 417:646, the
\* latter with child 417:647
WorkedExample ==
    <<MakeNode(NodeIds[1], TypeField(NodeIds[1]),
               <<MakeNode(NodeIds[2], TypeField(NodeIds[2]), <<>>),
                 MakeNode(NodeIds[3], TypeField(NodeIds[3]),
                          <<MakeNode(NodeIds[4], TypeField(NodeIds[4]), <<>>)>>)>>)>>

\* "417:641(417:642,417:646(417:647))"
WorkedHierarchy ==
    <<"4", "1", "7", ":", "6", "4", "1", "(",
      "4", "1", "7", ":", "6", "4", "2", ",",
      "4", "1", "7", ":", "6", "4", "6", "(",
      "4", "1", "7", ":", "6", "4", "7", ")", ")">>

\* C3: flattenNodes(nodes).hierarchy is exactly the string of the grammar and
\* nothing else; for the tree of the test it is
\* 417:641(417:642,417:646(417:647)).
C3_HierarchyExact ==
    Flattened =>
        /\ flat.hierarchy = GrammarOf(nodes)
        /\ nodes = WorkedExample => flat.hierarchy = WorkedHierarchy

Delims == {"(", ")", ","}

\* The number of ids of the string s, read by the grammar, that equal id: the
\* places where id stands between two delimiters or string ends
IdOccurrences(s, id) ==
    Cardinality({i \in DOMAIN s :
        /\ i + Len(id) - 1 <= Len(s)
        /\ SubSeq(s, i, i + Len(id) - 1) = id
        /\ i = 1 \/ s[i - 1] \in Delims
        /\ i + Len(id) > Len(s) \/ s[i + Len(id)] \in Delims})

\* C4: the flat list has as many entries as the tree has nodes, no flat node
\* carries a children field, and every node id appears exactly once in the
\* hierarchy string.
C4_Complete ==
    Flattened =>
        /\ Len(flat.nodes) = Cardinality(PathsOf(nodes))
        /\ \A i \in DOMAIN flat.nodes : "children" \notin DOMAIN flat.nodes[i]
        /\ \A p \in PathsOf(nodes) :
              IdOccurrences(flat.hierarchy, NodeAt(nodes, p)["id"]) = 1

\* p comes before q in pre-order: p is an ancestor of q, or at the first
\* place where they differ p takes the earlier sibling
PreOrderBefore(p, q) ==
    \/ Len(p) < Len(q) /\ SubSeq(q, 1, Len(p)) = p
    \/ \E k \in 1 .. Len(p) :
          /\ k <= Len(q)
          /\ SubSeq(p, 1, k - 1) = SubSeq(q, 1, k - 1)
          /\ p[k] < q[k]

\* The places of the flat list that hold the node of the given id
FlatIndex(id) == {i \in DOMAIN flat.nodes : flat.nodes[i]["id"] = id}

\* C5: the order of the flat list is the pre-order, depth-first,
\* left-to-right traversal of the input forest: every node stands once in
\* the list, before all its descendants and after every node of its earlier
\* siblings' subtrees.
C5_PreOrder ==
    Flattened =>
        /\ Len(flat.nodes) = Cardinality(PathsOf(nodes))
        /\ \A p \in PathsOf(nodes) :
              /\ Cardinality(FlatIndex(NodeAt(nodes, p)["id"])) = 1
              /\ \A i \in FlatIndex(NodeAt(nodes, p)["id"]) :
                    flat.nodes[i] = WithoutChildren(NodeAt(nodes, p))
        /\ \A p, q \in PathsOf(nodes) :
              PreOrderBefore(p, q) =>
                  \A i \in FlatIndex(NodeAt(nodes, p)["id"]) :
                      \A j \in FlatIndex(NodeAt(nodes, q)["id"]) : i < j

\* C5 witness: a forest of two roots, the first with a child, with ids that
\* are not in pre-order position, was flattened.
C5_Witness ==
    /\ Flattened
    /\ Len(nodes) >= 2
    /\ HasChildren(nodes[1])
    /\ nodes[2]["id"] = NodeIds[1]
    /\ Len(flat.nodes) >= 3

\* First place from i on that holds a delimiter, Len(s) + 1 when there is none
NextDelim(s, i) ==
    IF \E j \in i .. Len(s) : s[j] \in Delims
    THEN CHOOSE j \in i .. Len(s) :
            s[j] \in Delims /\ \A k \in i .. (j - 1) : s[k] \notin Delims
    ELSE Len(s) + 1

ParseFailure == [ok |-> FALSE, next |-> 0, node |-> <<>>, list |-> <<>>]

RECURSIVE ParseSubtree(_, _)
RECURSIVE ParseList(_, _, _)

\* node := id | id "(" node ("," node)* ")", read from place i of s
ParseSubtree(s, i) ==
    LET j == NextDelim(s, i)
    IN  IF j = i THEN ParseFailure
        ELSE IF j <= Len(s) /\ s[j] = "("
        THEN LET r == ParseList(s, j + 1, <<>>)
             IN  IF r.ok /\ r.next <= Len(s) /\ s[r.next] = ")"
                 THEN [ok |-> TRUE, next |-> r.next + 1, list |-> <<>>,
                       node |-> [id |-> SubSeq(s, i, j - 1), children |-> r.list]]
                 ELSE ParseFailure
        ELSE [ok |-> TRUE, next |-> j, list |-> <<>>,
              node |-> [id |-> SubSeq(s, i, j - 1)]]

\* node ("," node)*, read from place i of s
ParseList(s, i, acc) ==
    LET r == ParseSubtree(s, i)
    IN  IF ~r.ok THEN ParseFailure
        ELSE IF r.next <= Len(s) /\ s[r.next] = ","
        THEN ParseList(s, r.next + 1, Append(acc, r.node))
        ELSE [ok |-> TRUE, next |-> r.next, node |-> <<>>,
              list |-> Append(acc, r.node)]

\* The forest a hierarchy string stands for, when it is a string of the grammar
ParseHierarchy(s) ==
    IF s = <<>> THEN [ok |-> TRUE, forest |-> <<>>]
    ELSE LET r == ParseList(s, 1, <<>>)
         IN  IF r.ok /\ r.next = Len(s) + 1
             THEN [ok |-> TRUE, forest |-> r.list]
             ELSE [ok |-> FALSE, forest |-> <<>>]

\* The parent/child structure of a forest: ids and children only
RECURSIVE ShapeOf(_)
ShapeOf(forest) ==
    [i \in DOMAIN forest |->
        IF Kids(forest[i]) = <<>> THEN [id |-> forest[i]["id"]]
        ELSE [id |-> forest[i]["id"], children |-> ShapeOf(Kids(forest[i]))]]

\* C6: the hierarchy string alone determines the structure: parsing
\* flattenNodes(nodes).hierarchy by the grammar gives back every node with
\* its parent and its children in order (ids distinct and free of "(", ")"
\* and ",").
C6_ParseBack ==
    Flattened =>
        /\ ParseHierarchy(flat.hierarchy).ok
        /\ ParseHierarchy(flat.hierarchy).forest = ShapeOf(nodes)

(***************************************************************************)
(* simplify-node-response.ts: findOrCreateVar                              *)
(***************************************************************************)

\* The pairs of an object that JSON.stringify prints: a property whose value
\* is undefined is left out
PrintedPairs(obj) == SelectSeq(obj, LAMBDA pair : pair[2] # JsUndefined)

\* JSON.stringify of an object of numbers: {"k":v,...} in insertion order
Stringify(obj) ==
    LET pairs == PrintedPairs(obj)
    IN  <<"{">>
        \o Join([i \in DOMAIN pairs |->
                    <<"\"">> \o pairs[i][1] \o <<"\"", ":">> \o NumToStr(pairs[i][2][2])],
                <<",">>)
        \o <<"}">>

\* The nonces generateVarId can draw
Nonces == {<<UpperAlphabet[i]>> : i \in 1 .. NumNonces}

\* generateVarId(prefix): <prefix>_<nonce>, for the nonce drawn
GenerateVarId(prefix, nonce) == prefix \o <<"_">> \o nonce

\* Object.entries(globalVars.styles).find(...): the places of the table whose
\* value serialises as value does; find takes the first
MatchingEntries(styles, value) ==
    {i \in DOMAIN styles : Stringify(styles[i].value) = Stringify(value)}

Min(S) == CHOOSE x \in S : \A y \in S : x <= y

\* findOrCreateVar(globalVars, value, prefix), with the nonce generateVarId
\* draws when it is called: the id returned and globalVars.styles afterwards
FindOrCreateVar(styles, value, prefix, nonce) ==
    IF MatchingEntries(styles, value) # {}
    THEN [id |-> styles[Min(MatchingEntries(styles, value))].id, styles |-> styles]
    ELSE LET varId == GenerateVarId(prefix, nonce)
         IN  [id |-> varId, styles |-> TablePut(styles, varId, value)]

(***************************************************************************)
(* Specification of the Global Variable Store                              *)
(***************************************************************************)
Categories == {<<"s", "t", "y", "l", "e">>, <<"f", "i", "l", "l">>}

\* {a:1, b:2}, the same with the keys in the other order, {a:1}, and
\* {a:1, b:undefined}, which serialises as {a:1} does
StyleValues ==
    {<<<<<<"a">>, JsNumber(1)>>, <<<<"b">>, JsNumber(2)>>>>,
     <<<<<<"b">>, JsNumber(2)>>, <<<<"a">>, JsNumber(1)>>>>,
     <<<<<<"a">>, JsNumber(1)>>>>,
     <<<<<<"a">>, JsNumber(1)>>, <<<<"b">>, JsUndefined>>>>}

InitVars ==
    /\ pc = "parse"
    /\ nodes = <<>>
    /\ globalVars = [styles |-> <<>>, icons |-> <<>>]
    /\ shortened = NoResult
    /\ flat = NoResult
    /\ issued = <<>>
    /\ requests = <<>>
    /\ tmpDir = <<>>
    /\ config = <<>>
    /\ sseTransport = NoTransport

\* One call of findOrCreateVar during a parse; issued records the call, the
\* id it returned and the table it found
CallFindOrCreateVar ==
    /\ pc = "parse"
    /\ Len(issued) < MaxCalls
    /\ \E value \in StyleValues, prefix \in Categories, nonce \in Nonces :
          LET r == FindOrCreateVar(globalVars.styles, value, prefix, nonce)
          IN  /\ globalVars' = [globalVars EXCEPT !.styles = r.styles]
              /\ issued' = Append(issued, [value |-> value, prefix |-> prefix,
                                           id |-> r.id, before |-> globalVars.styles])
    /\ UNCHANGED <<pc, nodes, shortened, flat, requests, tmpDir, config, sseTransport>>

NextVars == CallFindOrCreateVar

SpecVars == InitVars /\ [][NextVars]_vars

(***************************************************************************)
(* Properties of the Global Variable Store                                 *)
(***************************************************************************)

\* The table after the k-th call
TableAfter(k) ==
    IF k = Len(issued) THEN globalVars.styles ELSE issued[k + 1].before

\* Equal as sets of properties: the same keys with the same values
SameProperties(v, w) == Range(v) = Range(w)

CategoryOf(id) ==
    LET cut == Min({i \in 1 .. Len(id) + 1 : i = Len(id) + 1 \/ id[i] = "_"})
    IN  SubSeq(id, 1, cut - 1)

MaxRawNodes == 4    \* raw nodes of the tree given to parseFigmaResponse
NumFileNames == 2   \* names generateRandomName can draw

\* A raw paint of type SOLID with colour c, and one of a type parsePaint
\* does not know
SolidPaint(c) == [type |-> "SOLID", color |-> c]

UnknownPaint == [type |-> "UNKNOWN"]

\* A raw text style {fontSize: n}
RawStyle(n) == <<<<<<"f", "o", "n", "t", "S", "i", "z", "e">>, JsNumber(n)>>>>

\* The kinds of raw node: type, name and what the extractors read.  Kind 3
\* is flagged not visible and holds a value no other kind holds; kind 4 is
\* malformed: its paint makes parsePaint throw
RawKinds ==
    <<[type |-> "FRAME", name |-> <<"I", "c", "o", "n", "/", "A", "d", "d">>,
       fills |-> <<SolidPaint(1)>>],
      [type |-> "VECTOR", name |-> <<"V", "e", "c", "t", "o", "r">>,
       fills |-> <<SolidPaint(1)>>],
      [type |-> "FRAME", name |-> <<"I", "c", "o", "n", "/", "A", "d", "d">>,
       visible |-> FALSE, fills |-> <<SolidPaint(2)>>],
      [type |-> "TEXT", name |-> <<"T", "i", "t", "l", "e">>,
       style |-> RawStyle(16), fills |-> <<UnknownPaint>>],
      [type |-> "TEXT", name |-> <<"T", "i", "t", "l", "e">>,
       fills |-> <<SolidPaint(3)>>]>>

\* The kinds of raw node of a single request
ParseKinds == {1, 2, 3, 4}

\* A raw node: a frame always has a children array, any other node has one
\* only when it has children
MakeRaw(id, kind, kids) ==
    IF kids = <<>> /\ RawKinds[kind].type # "FRAME"
    THEN ("id" :> id) @@ RawKinds[kind]
    ELSE ("id" :> id) @@ ("children" :> kids) @@ RawKinds[kind]

\* All raw forests whose nodes, in pre-order, are of the kinds of the
\* sequence kinds; the j-th node in pre-order has the (first + j)-th id.
\* Only a frame has children
RECURSIVE RawForestsOf(_, _)
RawForestsOf(kinds, first) ==
    IF kinds = <<>> THEN {<<>>}
    ELSE UNION {
            {<<MakeRaw(NodeIds[first + 1], kinds[1], kids)>> \o rest :
                kids \in RawForestsOf(SubSeq(kinds, 2, k + 1), first + 1),
                rest \in RawForestsOf(SubSeq(kinds, k + 2, Len(kinds)), first + k + 1)} :
            k \in IF RawKinds[kinds[1]].type = "FRAME" THEN 0 .. (Len(kinds) - 1) ELSE {0}}

\* The raw forests of at most n nodes of the kinds of the set ks
RawForests(n, ks) ==
    UNION {UNION {RawForestsOf(kinds, 0) : kinds \in [1 .. m -> ks]} : m \in 1 .. n}

\* isVisible(n): a node is visible unless it is flagged not visible
IsVisible(n) == ~("visible" \in DOMAIN n /\ n["visible"] = FALSE)

\* hasValue(key, n): n has the property
HasValue(key, n) == key \in DOMAIN n

\* getNodeCategory(n): an icon when its children exist and every one of
\* them is a vector-path leaf, a component by its type
GetNodeCategory(n) ==
    IF /\ HasValue("children", n)
       /\ Len(n["children"]) > 0
       /\ \A i \in DOMAIN n["children"] :
             /\ n["children"][i]["type"] = "VECTOR"
             /\ ~HasValue("children", n["children"][i])
    THEN "icon"
    ELSE IF n["type"] \in {"INSTANCE", "COMPONENT", "COMPONENT_SET"}
         THEN "component"
         ELSE "other"

\* obj[key], undefined when obj has no such property
Prop(obj, key) ==
    IF \E i \in DOMAIN obj : obj[i][1] = key
    THEN obj[CHOOSE i \in DOMAIN obj : obj[i][1] = key][2]
    ELSE JsUndefined

TextStyleKeys ==
    <<<<"f", "o", "n", "t", "F", "a", "m", "i", "l", "y">>,
      <<"f", "o", "n", "t", "W", "e", "i", "g", "h", "t">>,
      <<"f", "o", "n", "t", "S", "i", "z", "e">>,
      <<"l", "i", "n", "e", "H", "e", "i", "g", "h", "t">>,
      <<"l", "e", "t", "t", "e", "r", "S", "p", "a", "c", "i", "n", "g">>,
      <<"t", "e", "x", "t", "C", "a", "s", "e">>,
      <<"t", "e", "x", "t", "A", "l", "i", "g", "n", "H", "o", "r", "i", "z", "o", "n", "t", "a", "l">>,
      <<"t", "e", "x", "t", "A", "l", "i", "g", "n", "V", "e", "r", "t", "i", "c", "a", "l">>>>

\* The keys of TextStyle copied from the raw style; lineHeight and
\* letterSpacing are computed from lineHeightPx and letterSpacing, which no
\* raw style of the model has, so both are undefined
CopiedStyleKeys ==
    {<<"f", "o", "n", "t", "F", "a", "m", "i", "l", "y">>,
     <<"f", "o", "n", "t", "W", "e", "i", "g", "h", "t">>,
     <<"f", "o", "n", "t", "S", "i", "z", "e">>,
     <<"t", "e", "x", "t", "C", "a", "s", "e">>,
     <<"t", "e", "x", "t", "A", "l", "i", "g", "n", "H", "o", "r", "i", "z", "o", "n", "t", "a", "l">>,
     <<"t", "e", "x", "t", "A", "l", "i", "g", "n", "V", "e", "r", "t", "i", "c", "a", "l">>}

\* The textStyle object parseNode builds from n.style
TextStyleOf(style) ==
    [i \in DOMAIN TextStyleKeys |->
        <<TextStyleKeys[i],
          IF TextStyleKeys[i] \in CopiedStyleKeys
          THEN Prop(style, TextStyleKeys[i])
          ELSE JsUndefined>>]

\* parsePaint throws on a paint whose type it does not know
ParsePaintThrows(paint) == paint.type # "SOLID"

\* parsePaint(paint) of a solid paint: its colour
ParsePaint(paint) == <<<<"h", "e", "x">>, JsNumber(paint.color)>>

\* n.fills.map(parsePaint); the list of paints is written as an object with
\* one property per paint, which serialises one to one
ParsePaints(fills) == [i \in DOMAIN fills |-> ParsePaint(fills[i])]

\* sanitizeFilename(str): every character that is not alphanumeric becomes _
SanitizeFilename(str) ==
    [i \in DOMAIN str |-> IF IsAlnum(str[i]) THEN str[i] ELSE "_"]

\* parts[parts.length - 1] of str.split(/[/_]/): what follows the last / or _
LastPart(str) ==
    LET cuts == {i \in DOMAIN str : str[i] \in {"/", "_"}}
        last == IF cuts = {} THEN 0 ELSE CHOOSE i \in cuts : \A j \in cuts : j <= i
    IN  SubSeq(str, last + 1, Len(str))

\* Three SVG files, by content
SvgFiles == <<<<"<svg id=\"1\"/>">>, <<"<svg id=\"93\"/>">>, <<"<svg id=\"1294\"/>">>>>

\* createHash("md5").update(fileContent).digest("hex") of the three files
Md5OfSvgFiles ==
    <<<<"7", "3", "a", "a", "4", "6", "c", "7", "3", "2", "1", "d", "8", "d", "4", "c", "d", "e", "a", "1", "a", "b", "b", "f", "4", "e", "4", "5", "d", "f", "5", "5">>,
      <<"c", "c", "3", "d", "4", "4", "d", "4", "9", "e", "4", "2", "9", "6", "6", "6", "b", "4", "1", "c", "2", "5", "5", "5", "c", "b", "6", "1", "e", "a", "5", "d">>,
      <<"8", "4", "1", "1", "1", "5", "2", "0", "a", "6", "4", "0", "f", "a", "1", "a", "5", "b", "a", "1", "9", "9", "5", "0", "8", "2", "6", "1", "e", "a", "5", "d">>>>

\* The MD5 digest of a file's content in hex; the rendering of a node is
\* not known byte for byte, and its digest is a tag of the content
Md5Hex(content) ==
    IF content \in Range(SvgFiles)
    THEN Md5OfSvgFiles[CHOOSE i \in DOMAIN SvgFiles : SvgFiles[i] = content]
    ELSE <<"md5", content>>

\* The number of hex digits of the digest kept in a file name
TailLength == 6

\* String.prototype.slice(-6)
LastSix(str) ==
    IF Len(str) <= TailLength THEN str
    ELSE SubSeq(str, Len(str) - TailLength + 1, Len(str))

\* The last six hex digits of the MD5 digest of a file's content
Md5Tail(content) == LastSix(Md5Hex(content))

\* generateFileMd5Name("svg", fileUrl, inputString), for the content read
\* from fileUrl: <baseName>_<md5Hash>.svg
GenerateFileMd5Name(content, inputString) ==
    LET last == LastPart(ToLowerCase(inputString))
        baseName == IF last = <<>> THEN <<"f", "i", "l", "e">> ELSE last
    IN  <<SanitizeFilename(baseName), "_", Md5Tail(content), ".svg">>

\* findOrCreateVarForIcons(icon, globalVars): the name returned and
\* globalVars.icons afterwards
FindOrCreateVarForIcons(icon, icons) ==
    [fileName |-> icon.fileName,
     icons |-> IF icon.fileName \in TableKeys(icons)
               THEN icons
               ELSE TablePut(icons, icon.fileName, icon)]

\* A walk that ignores the icon of the parent
ShouldTraverseIgnoringIcon(n, simplifiedParent) ==
    /\ HasValue("children", n)
    /\ Len(n["children"]) > 0

\* shouldTraverseChildren(n, simplifiedParent)
ShouldTraverseChildren(n, simplifiedParent) ==
    /\ HasValue("children", n)
    /\ Len(n["children"]) > 0
    /\ ~HasValue("icon", simplifiedParent)

\* The state of a walk: status is "ok" while it runs, "suspended" at the
\* await of an icon fetch whose result it has not got (pending is the node),
\* "starved" where generateVarId needs a nonce that has not been drawn, and
\* "failed" once something has thrown (cause says what).  log and nonces
\* are the fetch results and nonces not yet consumed, used counts the nonces
\* consumed, parsed lists the ids of the nodes given to parseNode, and made
\* lists the table entries created, each with the node it was created for.
StartWalk(log, nonces) ==
    [status |-> "ok", cause |-> "none", pending |-> <<>>,
     globalVars |-> [styles |-> <<>>, icons |-> <<>>],
     log |-> log, nonces |-> nonces, used |-> 0, parsed |-> <<>>, made |-> <<>>]

Halt(w, status, cause) == [w EXCEPT !.status = status, !.cause = cause]

\* simplified[field] = findOrCreateVar(globalVars, value, prefix) within a
\* walk; r is the walk and the simplified node so far
StoreVar(r, field, value, prefix) ==
    LET styles == r.w.globalVars.styles
        creates == MatchingEntries(styles, value) = {}
    IN  IF r.w.status # "ok" THEN r
        ELSE IF creates /\ r.w.nonces = <<>>
        THEN [r EXCEPT !.w = Halt(r.w, "starved", "none")]
        ELSE LET nonce == IF creates THEN Head(r.w.nonces)
                          ELSE CHOOSE x \in Nonces : TRUE
                 res == FindOrCreateVar(styles, value, prefix, nonce)
             IN  [w |-> [r.w EXCEPT !.globalVars.styles = res.styles,
                                    !.nonces = IF creates THEN Tail(@) ELSE @,
                                    !.used = IF creates THEN @ + 1 ELSE @,
                                    !.made = IF creates
                                             THEN Append(@, [key |-> res.id,
                                                             node |-> r.node["id"]])
                                             ELSE @],
                  node |-> (field :> res.id) @@ r.node]

\* buildSimplifiedIcon(fileKey, n) within a walk: got says whether an icon
\* is returned.  The next fetch result of the log is what the await of
\* getImages and the reading of the file gave: an icon's content, no file,
\* or an exception.
BuildSimplifiedIcon(w, n) ==
    IF /\ "children" \in DOMAIN n
       /\ \A i \in DOMAIN n["children"] : n["children"][i]["type"] = "VECTOR"
    THEN IF w.log = <<>>
         THEN [w |-> [Halt(w, "suspended", "none") EXCEPT !.pending = n["id"]],
               got |-> FALSE, icon |-> <<>>]
         ELSE LET res == Head(w.log)
                  rest == [w EXCEPT !.log = Tail(@)]
              IN  CASE res.kind = "throw" ->
                         [w |-> Halt(rest, "failed", "icon"), got |-> FALSE, icon |-> <<>>]
                    [] res.kind = "none" ->
                         [w |-> rest, got |-> FALSE, icon |-> <<>>]
                    [] res.kind = "icon" ->
                         [w |-> rest, got |-> TRUE,
                          icon |-> [type |-> "svg",
                                    fileName |-> GenerateFileMd5Name(res.content, n["name"]),
                                    content |-> res.content]]
    ELSE [w |-> w, got |-> FALSE, icon |-> <<>>]

\* A filter that keeps every node
AllNodes(list) == list

\* list.filter(isVisible)
VisibleNodes(list) == SelectSeq(list, IsVisible)

\* An assignment of the children whatever their number
AttachAlways(node, simplifiedNodes) == ("children" :> simplifiedNodes) @@ node

\* if (simplifiedNodes.length) simplified.children = simplifiedNodes
AttachChildren(node, simplifiedNodes) ==
    IF Len(simplifiedNodes) > 0
    THEN ("children" :> simplifiedNodes) @@ node
    ELSE node

\* The component fields parseNode copies for an INSTANCE
ComponentFields(n) ==
    IF n["type"] = "INSTANCE"
    THEN [f \in {"componentId", "componentProperties"} \cap DOMAIN n |-> n[f]]
    ELSE <<>>

\* The first part of parseNode: the node's own fields, its category and,
\* for an icon, the await of buildSimplifiedIcon
Classify(w, n) ==
    LET simplified == [id |-> n["id"], name |-> n["name"], type |-> n["type"]]
        category == GetNodeCategory(n)
    IN  CASE category = "component" ->
               [w |-> w, node |-> ComponentFields(n) @@ simplified]
          [] category = "icon" ->
               LET b == BuildSimplifiedIcon(w, n)
                   f == FindOrCreateVarForIcons(b.icon, b.w.globalVars.icons)
               IN  IF b.got
                   THEN [w |-> [b.w EXCEPT !.globalVars.icons = f.icons,
                                           !.made = IF f.icons # b.w.globalVars.icons
                                                    THEN Append(@, [key |-> f.fileName,
                                                                    node |-> n["id"]])
                                                    ELSE @],
                         node |-> ("icon" :> f.fileName) @@ simplified]
                   ELSE [w |-> b.w, node |-> simplified]
          [] OTHER -> [w |-> w, node |-> simplified]

\* text: the textStyle reference
ExtractTextStyle(r, n) ==
    IF r.w.status = "ok" /\ HasValue("style", n) /\ Len(n["style"]) > 0
    THEN StoreVar(r, "textStyle", TextStyleOf(n["style"]), <<"s", "t", "y", "l", "e">>)
    ELSE r

\* fills: parsePaint of every paint, which may throw, then the reference
ExtractFills(r, n) ==
    IF r.w.status = "ok" /\ HasValue("fills", n) /\ Len(n["fills"]) > 0
    THEN IF \E i \in DOMAIN n["fills"] : ParsePaintThrows(n["fills"][i])
         THEN [r EXCEPT !.w = Halt(r.w, "failed", "extractor")]
         ELSE StoreVar(r, "fills", ParsePaints(n["fills"]), <<"f", "i", "l", "l">>)
    ELSE r

\* strokes, effects and layout: buildSimplifiedStrokes, buildSimplifiedEffects
\* and buildSimplifiedLayout give what the raw node holds for each, and a
\* raw node that holds nothing gets no reference
ExtractOther(r, n, field, prefix) ==
    IF r.w.status = "ok" /\ HasValue(field, n) /\ Len(n[field]) > 0
    THEN StoreVar(r, field, n[field], prefix)
    ELSE r

\* The simple properties kept directly: text
ExtractText(r, n) ==
    IF r.w.status = "ok" /\ HasValue("characters", n) /\ Len(n["characters"]) > 0
    THEN [r EXCEPT !.node = ("text" :> n["characters"]) @@ @]
    ELSE r

\* The extractions of parseNode, in the order of its statements; each works
\* on the walk and the simplified node the one before has left
Extractors == <<"textStyle", "fills", "strokes", "effects", "layout", "text">>

Extract(r, n, extractor) ==
    CASE extractor = "textStyle" -> ExtractTextStyle(r, n)
      [] extractor = "fills" -> ExtractFills(r, n)
      [] extractor = "strokes" ->
            ExtractOther(r, n, "strokes", <<"s", "t", "r", "o", "k", "e">>)
      [] extractor = "effects" ->
            ExtractOther(r, n, "effects", <<"e", "f", "f", "e", "c", "t">>)
      [] extractor = "layout" ->
            ExtractOther(r, n, "layout", <<"l", "a", "y", "o", "u", "t">>)
      [] extractor = "text" -> ExtractText(r, n)

RECURSIVE ExtractFrom(_, _, _)
ExtractFrom(r, n, i) ==
    IF i > Len(Extractors) THEN r
    ELSE ExtractFrom(Extract(r, n, Extractors[i]), n, i + 1)

\* The element of a singleton set.  The({f(x) : x \in {e}}) is f(e) with
\* e computed once, however often f uses x
The(S) == CHOOSE x \in S : TRUE

\* parseNode(fileKey, globalVars, n, parent) and the loop over a list of
\* nodes that awaits parseNode for each in turn
RECURSIVE ParseNode(_, _), ParseNodes(_, _, _, _)
ParseNode(w, n) ==
    The({IF r.w.status = "ok"
            /\ HasValue("children", n) /\ ShouldTraverseChildren(n, r.node)
         THEN The({[w |-> c.w, node |-> AttachChildren(r.node, c.nodes)] :
                      c \in {ParseNodes(r.w, VisibleNodes(n["children"]), 1, <<>>)}})
         ELSE r :
            r \in {ExtractFrom(Classify([w EXCEPT !.parsed = Append(@, n["id"])], n), n, 1)}})

\* A loop that takes the nodes of the list from the last to the first
ParseNodesBackwards(w, list, i, simplifiedNodes) ==
    IF i > Len(list) \/ w.status # "ok"
    THEN [w |-> w, nodes |-> simplifiedNodes]
    ELSE The({ParseNodes(parsedNode.w, list, i + 1,
                        IF parsedNode.w.status = "ok"
                        THEN Append(simplifiedNodes, parsedNode.node)
                        ELSE simplifiedNodes) :
                 parsedNode \in {ParseNode(w, list[Len(list) + 1 - i])}})

ParseNodes(w, list, i, simplifiedNodes) ==
    IF i > Len(list) \/ w.status # "ok"
    THEN [w |-> w, nodes |-> simplifiedNodes]
    ELSE The({ParseNodes(parsedNode.w, list, i + 1,
                        IF parsedNode.w.status = "ok"
                        THEN Append(simplifiedNodes, parsedNode.node)
                        ELSE simplifiedNodes) : parsedNode \in {ParseNode(w, list[i])}})

\* sanitizeComponents and sanitizeComponentSets keep each definition's id,
\* key and name
SanitizeComponents(components) ==
    [i \in DOMAIN components |->
        [id |-> components[i].id, key |-> components[i].key, name |-> components[i].name]]

\* removeEmptyKeys on a simplified node: a key whose value is an empty
\* array goes, in the node and in its children
RECURSIVE RemoveEmptyNode(_)
RemoveEmptyNode(node) ==
    [f \in {g \in DOMAIN node : g = "children" => Len(node[g]) > 0} |->
        IF f = "children"
        THEN [i \in DOMAIN node[f] |-> RemoveEmptyNode(node[f][i])]
        ELSE node[f]]

\* removeEmptyKeys(simplifiedDesign): a key whose value is undefined, an
\* empty array or an empty object goes, at every depth
RemoveEmptyKeys(design) ==
    LET gv == design["globalVars"]
        styles == [i \in DOMAIN gv.styles |->
                      [id |-> gv.styles[i].id, value |-> PrintedPairs(gv.styles[i].value)]]
        tables == [f \in {g \in {"styles", "icons"} : Len(gv[g]) > 0} |->
                      IF f = "styles" THEN styles ELSE gv.icons]
        kept == {"name", "lastModified", "thumbnailUrl"}
                \cup {f \in {"nodes", "components", "componentSets"} : Len(design[f]) > 0}
                \cup (IF DOMAIN tables = {} THEN {} ELSE {"globalVars"})
    IN  [f \in kept |->
            CASE f = "globalVars" -> tables
              [] f = "nodes" -> [i \in DOMAIN design[f] |-> RemoveEmptyNode(design[f][i])]
              [] OTHER -> design[f]]

\* parseFigmaResponse(fileKey, data) of a GetFileResponse, as far as the
\* fetch results of log and the nonces allow.  status is "done" when the
\* promise is fulfilled (design is then its value), "failed" when it is
\* rejected; nodes is simplifiedNodes.
ParseFigmaResponse(data, log, nonces) ==
    The({[status |-> IF c.w.status = "ok" THEN "done" ELSE c.w.status,
          cause |-> c.w.cause,
          pending |-> c.w.pending,
          used |-> c.w.used,
          parsed |-> c.w.parsed,
          made |-> c.w.made,
          globalVars |-> c.w.globalVars,
          nodes |-> c.nodes,
          design |-> IF c.w.status = "ok"
                     THEN RemoveEmptyKeys(
                              [name |-> data.name,
                               lastModified |-> data.lastModified,
                               thumbnailUrl |-> data.thumbnailUrl,
                               nodes |-> c.nodes,
                               components |-> SanitizeComponents(data.components),
                               componentSets |-> SanitizeComponents(data.componentSets),
                               globalVars |-> c.w.globalVars])
                     ELSE NoResult] :
            c \in {ParseNodes(StartWalk(log, nonces),
                              VisibleNodes(data.document["children"]), 1, <<>>)}})

\* The nonces a parse can have drawn when it next stops, given those it had
\* drawn before: one more for every variable it creates on the way
RECURSIVE NonceStreams(_, _, _)
NonceStreams(data, log, drawn) ==
    IF ParseFigmaResponse(data, log, drawn).status = "starved"
    THEN UNION {NonceStreams(data, log, Append(drawn, nonce)) : nonce \in Nonces}
    ELSE {drawn}

\* compress(file) throws when file has no nodes or no globalVars.styles to
\* read
CompressThrows(file) ==
    \/ "nodes" \notin DOMAIN file
    \/ "globalVars" \notin DOMAIN file
    \/ "styles" \notin DOMAIN file["globalVars"]

\* compress(file)
Compress(file) ==
    LET s == ShortenGlobalVarIds(file["nodes"], file["globalVars"])
        f == FlattenNodes(s.shortenedNodes)
    IN  [k \in DOMAIN file \cup {"hierarchy"} |->
            CASE k = "hierarchy" -> f.hierarchy
              [] k = "nodes" -> f.nodes
              [] k = "globalVars" -> s.shortenedGlobalVars
              [] OTHER -> file[k]]

(***************************************************************************)
(* Specification of the Node Walker                                        *)
(*                                                                         *)
(* A request is one call of parseFigmaResponse followed by compress.  It   *)
(* runs without interruption from one await of getImages to the next;     *)
(* getImages settles in between, and so may the steps of other requests.   *)
(* tmpDir is the directory getImageTempDirPath names, shared by all        *)
(* requests: the content of each file in it, by file name.                 *)
(***************************************************************************)
FileKeys == <<"fileA", "fileB">>

\* The characters generateRandomName can draw for a name
RandomParts == {<<LowerAlphabet[i]>> : i \in 1 .. NumFileNames}

\* generateRandomName("svg"), for the characters drawn
GenerateRandomName(drawn) == drawn \o <<".", "s", "v", "g">>

\* The SVG the design API renders for a node of a file
Render(fileKey, nodeId) == <<"svg", fileKey, nodeId>>

\* The GetFileResponse of a file whose document has the children forest
FileResponse(forest) ==
    [name |-> "Design", lastModified |-> "2025-01-01", thumbnailUrl |-> "",
     document |-> [children |-> forest],
     components |-> <<[id |-> "1:2", key |-> "k", name |-> "Button", remote |-> FALSE]>>,
     componentSets |-> <<>>]

NoFetch == [fileName |-> <<>>, nodeId |-> <<>>, state |-> "none"]

NewRequest(fileKey, data) ==
    [fileKey |-> fileKey, data |-> data, log |-> <<>>, nonces |-> <<>>,
     outcomes |-> <<>>, run |-> [status |-> "new"], fetch |-> NoFetch,
     compressed |-> [status |-> "none"]]

\* Request r runs on, having got the fetch results of log, until its next
\* await of getImages, its end or its failure
RunOn(r, log) ==
    \E stream \in NonceStreams(requests[r].data, log, requests[r].nonces) :
        LET run == ParseFigmaResponse(requests[r].data, log, stream)
        IN  \E drawn \in IF run.status = "suspended" THEN RandomParts ELSE {<<>>} :
                requests' =
                    [requests EXCEPT ![r] =
                        [@ EXCEPT !.log = log, !.nonces = stream, !.run = run,
                                  !.fetch = IF run.status = "suspended"
                                            THEN [fileName |-> GenerateRandomName(drawn),
                                                  nodeId |-> run.pending,
                                                  state |-> "requested"]
                                            ELSE NoFetch]]

\* parseFigmaResponse(fileKey, data) is called
StartParse ==
    \E r \in DOMAIN requests :
        /\ requests[r].run.status = "new"
        /\ RunOn(r, <<>>)
        /\ UNCHANGED <<pc, nodes, globalVars, shortened, flat, issued, tmpDir, config, sseTransport>>

\* getImages settles: the image is downloaded to tempDir/fileName, or the
\* API has no image for the node, or the request to the API throws
GetImagesSettles ==
    \E r \in DOMAIN requests :
        /\ requests[r].fetch.state = "requested"
        /\ \E outcome \in {"downloaded", "nofile", "rejected"} :
              /\ requests' = [requests EXCEPT ![r].fetch.state = outcome,
                                              ![r].outcomes =
                                                  Append(@, [nodeId |-> requests[r].fetch.nodeId,
                                                             state |-> outcome])]
              /\ tmpDir' = IF outcome = "downloaded"
                           THEN MapPut(tmpDir, requests[r].fetch.fileName,
                                       Render(requests[r].fileKey, requests[r].fetch.nodeId))
                           ELSE tmpDir
        /\ UNCHANGED <<pc, nodes, globalVars, shortened, flat, issued, config, sseTransport>>

\* What buildSimplifiedIcon gets after its await: the exception of
\* getImages, no url, or the content of the file at url, which it unlinks
\* (readFileSync throws when there is no such file)
FetchResult(fetch, dir) ==
    CASE fetch.state = "rejected" -> [kind |-> "throw"]
      [] fetch.state = "nofile" -> [kind |-> "none"]
      [] fetch.state = "downloaded" ->
            IF fetch.fileName \in DOMAIN dir
            THEN [kind |-> "icon", content |-> dir[fetch.fileName]]
            ELSE [kind |-> "throw"]

\* The request resumes after the await of getImages
ResumeParse ==
    \E r \in DOMAIN requests :
        /\ requests[r].fetch.state \in {"downloaded", "nofile", "rejected"}
        /\ RunOn(r, Append(requests[r].log, FetchResult(requests[r].fetch, tmpDir)))
        /\ tmpDir' = IF requests[r].fetch.state = "downloaded"
                     THEN [f \in DOMAIN tmpDir \ {requests[r].fetch.fileName} |-> tmpDir[f]]
                     ELSE tmpDir
        /\ UNCHANGED <<pc, nodes, globalVars, shortened, flat, issued, config, sseTransport>>

\* compress is applied to the design parseFigmaResponse returned
CompressDesign ==
    \E r \in DOMAIN requests :
        /\ requests[r].run.status = "done"
        /\ requests[r].compressed.status = "none"
        /\ requests' = [requests EXCEPT ![r].compressed =
                           IF CompressThrows(requests[r].run.design)
                           THEN [status |-> "failed"]
                           ELSE [status |-> "done",
                                 file |-> Compress(requests[r].run.design)]]
        /\ UNCHANGED <<pc, nodes, globalVars, shortened, flat, issued, tmpDir, config, sseTransport>>

NextParse ==
    \/ StartParse
    \/ GetImagesSettles
    \/ ResumeParse
    \/ CompressDesign

\* One request, on any raw forest within the bounds
InitParse ==
    /\ pc = "walk"
    /\ nodes = <<>>
    /\ globalVars = [styles |-> <<>>, icons |-> <<>>]
    /\ shortened = NoResult
    /\ flat = NoResult
    /\ issued = <<>>
    /\ tmpDir = <<>>
    /\ config = <<>>
    /\ \E forest \in RawForests(MaxRawNodes, ParseKinds) :
          requests = <<NewRequest(FileKeys[1], FileResponse(forest))>>
    /\ sseTransport = NoTransport

SpecParse == InitParse /\ [][NextParse]_vars

\* The raw forests of two requests that run together: a frame of one
\* vector, a frame and a text with different fills, both together, and two
\* frames of one vector each
PairForests ==
    {<<MakeRaw(NodeIds[1], 1, <<MakeRaw(NodeIds[2], 2, <<>>)>>)>>,
     <<MakeRaw(NodeIds[1], 1, <<>>), MakeRaw(NodeIds[2], 5, <<>>)>>,
     <<MakeRaw(NodeIds[1], 1, <<MakeRaw(NodeIds[2], 2, <<>>)>>),
       MakeRaw(NodeIds[3], 5, <<>>)>>,
     <<MakeRaw(NodeIds[1], 1, <<MakeRaw(NodeIds[2], 2, <<>>)>>),
       MakeRaw(NodeIds[3], 1, <<MakeRaw(NodeIds[4], 2, <<>>)>>)>>}

\* Two requests on the same raw forest, of the same file or of two files
InitPair ==
    /\ pc = "walk"
    /\ nodes = <<>>
    /\ globalVars = [styles |-> <<>>, icons |-> <<>>]
    /\ shortened = NoResult
    /\ flat = NoResult
    /\ issued = <<>>
    /\ tmpDir = <<>>
    /\ config = <<>>
    /\ \E forest \in PairForests, second \in DOMAIN FileKeys :
          requests = <<NewRequest(FileKeys[1], FileResponse(forest)),
                       NewRequest(FileKeys[second], FileResponse(forest))>>
    /\ sseTransport = NoTransport

SpecPair == InitPair /\ [][NextParse]_vars

(***************************************************************************)
(* Properties of the Node Walker                                           *)
(***************************************************************************)

\* The raw forest of request r, and what its parse has come to
RawOf(r) == requests[r].data.document["children"]

RunOf(r) == requests[r].run

Started(r) == RunOf(r).status # "new"

Done(r) == RunOf(r).status = "done"

\* The addresses of the ancestors of the node at path, and of the node too
Above(path) == {SubSeq(path, 1, k) : k \in 1 .. (Len(path) - 1)}

UpTo(path) == Above(path) \cup {path}

IdsOf(forest) == {NodeAt(forest, p)["id"] : p \in PathsOf(forest)}

\* The node of a forest with a given id
NodeOf(forest, id) ==
    NodeAt(forest, CHOOSE p \in PathsOf(forest) : NodeAt(forest, p)["id"] = id)

\* A raw node on which an extractor throws
Malformed(n) ==
    /\ HasValue("fills", n)
    /\ \E i \in DOMAIN n["fills"] : ParsePaintThrows(n["fills"][i])

\* The values the extractors read from a raw node
ValuesOf(n) ==
    (IF HasValue("style", n) /\ Len(n["style"]) > 0
     THEN {Stringify(TextStyleOf(n["style"]))} ELSE {})
    \cup (IF HasValue("fills", n) /\ Len(n["fills"]) > 0 /\ ~Malformed(n)
          THEN {Stringify(ParsePaints(n["fills"]))} ELSE {})

\* C12: when processing a raw node throws, only that node is skipped: the
\* parse does not fail, and once it is done every visible well-formed node
\* whose ancestors are visible, well-formed and no icons is in the output,
\* with its values in the variable table.
C12_FaultIsolation ==
    \A r \in DOMAIN requests :
        /\ ~(RunOf(r).status = "failed" /\ RunOf(r).cause = "extractor")
        /\ Done(r) =>
              \A p \in PathsOf(RawOf(r)) :
                  (/\ \A q \in UpTo(p) : /\ IsVisible(NodeAt(RawOf(r), q))
                                         /\ ~Malformed(NodeAt(RawOf(r), q))
                   /\ \A q \in Above(p) : GetNodeCategory(NodeAt(RawOf(r), q)) # "icon")
                  => /\ NodeAt(RawOf(r), p)["id"] \in IdsOf(RunOf(r).nodes)
                     /\ \A v \in ValuesOf(NodeAt(RawOf(r), p)) :
                           \E i \in DOMAIN RunOf(r).globalVars.styles :
                               Stringify(RunOf(r).globalVars.styles[i].value) = v

\* A node the walk must not see: it or one of its ancestors is flagged not
\* visible
Hidden(forest, path) == \E q \in UpTo(path) : ~IsVisible(NodeAt(forest, q))

HiddenIds(forest) == {NodeAt(forest, p)["id"] : p \in {q \in PathsOf(forest) : Hidden(forest, q)}}

\* C13: a raw node flagged not visible, and every descendant of it, is never
\* given to parseNode, is not in the output nodes, and no entry of
\* globalVars.styles or globalVars.icons is created for it; every value of
\* the table is one read from a node that is not hidden.
C13_InvisibleDropped ==
    \A r \in DOMAIN requests :
        Started(r) =>
            /\ HiddenIds(RawOf(r)) \cap Range(RunOf(r).parsed) = {}
            /\ HiddenIds(RawOf(r)) \cap IdsOf(RunOf(r).nodes) = {}
            /\ Done(r) /\ "nodes" \in DOMAIN RunOf(r).design
                  => HiddenIds(RawOf(r)) \cap IdsOf(RunOf(r).design["nodes"]) = {}
            /\ \A i \in DOMAIN RunOf(r).made :
                  RunOf(r).made[i].node \notin HiddenIds(RawOf(r))
            /\ \A i \in DOMAIN RunOf(r).globalVars.styles :
                  \E p \in PathsOf(RawOf(r)) :
                      /\ ~Hidden(RawOf(r), p)
                      /\ Stringify(RunOf(r).globalVars.styles[i].value)
                            \in ValuesOf(NodeAt(RawOf(r), p))
            /\ \A i \in DOMAIN RunOf(r).globalVars.icons :
                  \E p \in PathsOf(RawOf(r)) :
                      /\ ~Hidden(RawOf(r), p)
                      /\ RunOf(r).globalVars.icons[i].value.content
                            = Render(requests[r].fileKey, NodeAt(RawOf(r), p)["id"])

\* A parse is done whose forest has a node flagged not visible at the top
\* and one below a visible frame, the first with a child, and whose table
\* has an entry
C13_Witness ==
    \E r \in DOMAIN requests :
        /\ Done(r)
        /\ Len(RunOf(r).globalVars.styles) > 0
        /\ \E p, q \in PathsOf(RawOf(r)) :
              /\ Len(p) = 2 /\ ~IsVisible(NodeAt(RawOf(r), <<p[1]>>))
              /\ Len(q) = 2 /\ IsVisible(NodeAt(RawOf(r), <<q[1]>>))
              /\ ~IsVisible(NodeAt(RawOf(r), q))

\* The ids of the descendants of the node at path
BelowIds(forest, path) ==
    {NodeAt(forest, p)["id"] :
        p \in {q \in PathsOf(forest) : Len(q) > Len(path) /\ SubSeq(q, 1, Len(path)) = path}}

\* The node at path of the raw forest of r is output as an atomic icon: one
\* icon reference that resolves in globalVars.icons, no children field, and
\* no descendant parsed, output or the origin of a table entry
AtomicIcon(r, path) ==
    LET out == NodeOf(RunOf(r).nodes, NodeAt(RawOf(r), path)["id"])
        below == BelowIds(RawOf(r), path)
    IN  /\ "icon" \in DOMAIN out
        /\ out["icon"] \in TableKeys(RunOf(r).globalVars.icons)
        /\ "children" \notin DOMAIN out
        /\ below \cap Range(RunOf(r).parsed) = {}
        /\ below \cap IdsOf(RunOf(r).nodes) = {}
        /\ \A i \in DOMAIN RunOf(r).made : RunOf(r).made[i].node \notin below

\* The icon candidates of the raw forest of r that are in its output
OutputCandidates(r) ==
    {p \in PathsOf(RawOf(r)) :
        /\ GetNodeCategory(NodeAt(RawOf(r), p)) = "icon"
        /\ NodeAt(RawOf(r), p)["id"] \in IdsOf(RunOf(r).nodes)}

\* buildSimplifiedIcon got the asset of the node: the file was fetched and
\* read
AssetObtained(r, id) ==
    \E k \in DOMAIN requests[r].log :
        /\ requests[r].outcomes[k].nodeId = id
        /\ requests[r].log[k].kind = "icon"

\* C14, as claimed: every output node whose children exist and are all
\* vector-path nodes is output as an atomic icon.
C14_AtomicIconAlways ==
    \A r \in DOMAIN requests :
        Started(r) => \A p \in OutputCandidates(r) : AtomicIcon(r, p)

\* C14, amended: every output node whose children exist and are all
\* vector-path nodes and whose icon asset was fetched and read is output as
\* an atomic icon: one icon reference, no children field, and no descendant
\* parsed, output or the origin of a table entry.
C14_AtomicIcon ==
    \A r \in DOMAIN requests :
        Started(r) =>
            \A p \in OutputCandidates(r) :
                AssetObtained(r, NodeAt(RawOf(r), p)["id"]) => AtomicIcon(r, p)

\* A parse is done whose output has an icon node with a visible vector
\* child in the raw forest
C14_Witness ==
    \E r \in DOMAIN requests :
        /\ Done(r)
        /\ \E p \in OutputCandidates(r) :
              /\ AssetObtained(r, NodeAt(RawOf(r), p)["id"])
              /\ \E i \in DOMAIN NodeAt(RawOf(r), p)["children"] :
                    IsVisible(NodeAt(RawOf(r), p)["children"][i])

\* The ids of the children a node lists, and of the visible children of a
\* raw node, in order
ChildIds(node) == [i \in DOMAIN Kids(node) |-> Kids(node)[i]["id"]]

VisibleChildIds(n) == ChildIds([children |-> VisibleNodes(Kids(n))])

\* The fetch for the node was awaited and gave no asset
AssetMissed(r, id) ==
    \E k \in DOMAIN requests[r].log :
        /\ requests[r].outcomes[k].nodeId = id
        /\ requests[r].log[k].kind # "icon"

\* C15: when the asset of a candidate icon node cannot be obtained, parsing
\* does not fail: the node is output without an icon reference and with its
\* visible children, as a node that is no icon.
C15_IconFallback ==
    \A r \in DOMAIN requests :
        /\ ~(RunOf(r).status = "failed" /\ RunOf(r).cause = "icon")
        /\ Started(r) =>
              \A p \in OutputCandidates(r) :
                  LET n == NodeAt(RawOf(r), p)
                      out == NodeOf(RunOf(r).nodes, n["id"])
                  IN  AssetMissed(r, n["id"])
                          => /\ "icon" \notin DOMAIN out
                             /\ ChildIds(out) = VisibleChildIds(n)

\* The children field of every node of an output forest is right: present
\* only with at least one child, and then listing the visible children of
\* the raw node in their order
ChildrenRight(r, forest) ==
    \A id \in IdsOf(forest) :
        LET out == NodeOf(forest, id)
            n == NodeOf(RawOf(r), id)
        IN  /\ "children" \in DOMAIN out
                => /\ Len(out["children"]) > 0
                   /\ ChildIds(out) = VisibleChildIds(n)
            /\ VisibleChildIds(n) = <<>> => "children" \notin DOMAIN out

\* C16: a simplified node has a children field only when at least one child
\* survived the walk, never an empty array, and the field lists the
\* surviving children in their original order; so in what parseNode returns
\* and in the design parseFigmaResponse returns.
C16_ChildrenField ==
    \A r \in DOMAIN requests :
        Started(r) =>
            /\ ChildrenRight(r, RunOf(r).nodes)
            /\ Done(r) /\ "nodes" \in DOMAIN RunOf(r).design
                  => ChildrenRight(r, RunOf(r).design["nodes"])

\* A parse is done whose output has a node listing fewer children than the
\* raw node has and a node without the field whose raw children are all
\* hidden
C16_Witness ==
    \E r \in DOMAIN requests :
        /\ Done(r)
        /\ \E id \in IdsOf(RunOf(r).nodes) :
              /\ "children" \in DOMAIN NodeOf(RunOf(r).nodes, id)
              /\ Len(NodeOf(RunOf(r).nodes, id)["children"])
                    < Len(NodeOf(RawOf(r), id)["children"])
        /\ \E id \in IdsOf(RunOf(r).nodes) :
              /\ "children" \notin DOMAIN NodeOf(RunOf(r).nodes, id)
              /\ "children" \in DOMAIN NodeOf(RawOf(r), id)
              /\ Len(NodeOf(RawOf(r), id)["children"]) > 0

\* The fields compress has no reason to touch
FrameFields == {"name", "lastModified", "thumbnailUrl", "components", "componentSets"}

\* C17: the structure compress returns has globalVars.styles, and when the
\* design had an icon table it has globalVars.icons with every icon of the
\* design under the same name and with the same descriptor, so that every
\* node's icon reference resolves; name, lastModified, thumbnailUrl,
\* components and componentSets are returned unchanged.
C17_CompressKeepsIcons ==
    \A r \in DOMAIN requests :
        requests[r].compressed.status = "done" =>
            LET before == RunOf(r).design
                after == requests[r].compressed.file
            IN  /\ "styles" \in DOMAIN after["globalVars"]
                /\ \A f \in FrameFields :
                      /\ f \in DOMAIN before <=> f \in DOMAIN after
                      /\ f \in DOMAIN before => after[f] = before[f]
                /\ "icons" \in DOMAIN before["globalVars"]
                      => /\ "icons" \in DOMAIN after["globalVars"]
                         /\ Range(before["globalVars"]["icons"])
                               \subseteq Range(after["globalVars"]["icons"])
                         /\ \A i \in DOMAIN after["nodes"] :
                               "icon" \in DOMAIN after["nodes"][i]
                                   => after["nodes"][i]["icon"]
                                         \in TableKeys(after["globalVars"]["icons"])

\* The pipeline of request r has produced its output
Compressed(r) == requests[r].compressed.status = "done"

FetchedAlone(r, k) ==
    LET outcome == requests[r].outcomes[k]
    IN  CASE outcome.state = "rejected" -> [kind |-> "throw"]
          [] outcome.state = "nofile" -> [kind |-> "none"]
          [] outcome.state = "downloaded" ->
                [kind |-> "icon", content |-> Render(requests[r].fileKey, outcome.nodeId)]

\* C19: whatever another request does in between, a request reads from each
\* fetch what it would read alone, so that its tables and its result are
\* those of the same request run alone (with the same nonces and the same
\* answers of the design API), and hold no icon of another request.
C19_Isolation ==
    \A r \in DOMAIN requests :
        Started(r) =>
            /\ \A k \in DOMAIN requests[r].log :
                  requests[r].log[k] = FetchedAlone(r, k)
            /\ RunOf(r) = ParseFigmaResponse(requests[r].data,
                                             [k \in DOMAIN requests[r].log |-> FetchedAlone(r, k)],
                                             requests[r].nonces)
            /\ \A i \in DOMAIN RunOf(r).globalVars.icons :
                  \E id \in IdsOf(RawOf(r)) :
                      RunOf(r).globalVars.icons[i].value.content
                          = Render(requests[r].fileKey, id)

\* The address of the node of a forest with a given id
PathOf(forest, id) == CHOOSE p \in PathsOf(forest) : NodeAt(forest, p)["id"] = id

\* The walk of r goes through the node at path: the node and its ancestors
\* are visible and no ancestor has got its icon
Walked(r, path) ==
    /\ \A q \in UpTo(path) : IsVisible(NodeAt(RawOf(r), q))
    /\ \A q \in Above(path) : ~AssetObtained(r, NodeAt(RawOf(r), q)["id"])

\* C21: the walk of a request is sequential and depth-first.  The nodes are
\* given to parseNode one after the other in pre-order, none twice and none
\* of the walk left out before a node that was started; at most one icon
\* fetch is outstanding, for the node started last; and the table entries
\* are created in the pre-order of their nodes, those of a node before
\* those of its children and after those of its earlier siblings' subtrees.
C21_Sequential ==
    \A r \in DOMAIN requests :
        Started(r) =>
            LET parsed == RunOf(r).parsed
                made == RunOf(r).made
                raw == RawOf(r)
            IN  /\ \A i, j \in DOMAIN parsed :
                      i < j => PreOrderBefore(PathOf(raw, parsed[i]), PathOf(raw, parsed[j]))
                /\ \A j \in DOMAIN parsed :
                      \A q \in PathsOf(raw) :
                          (Walked(r, q) /\ PreOrderBefore(q, PathOf(raw, parsed[j])))
                              => NodeAt(raw, q)["id"] \in Range(parsed)
                /\ requests[r].fetch.state # "none"
                      => /\ RunOf(r).status = "suspended"
                         /\ parsed # <<>>
                         /\ requests[r].fetch.nodeId = parsed[Len(parsed)]
                         /\ RunOf(r).pending = parsed[Len(parsed)]
                /\ RunOf(r).status = "suspended" <=> requests[r].fetch.state # "none"
                /\ Len(requests[r].outcomes) - Len(requests[r].log) \in {0, 1}
                /\ \A i \in DOMAIN made : made[i].node \in Range(parsed)
                /\ \A i, j \in DOMAIN made :
                      i < j => \/ made[i].node = made[j].node
                               \/ PreOrderBefore(PathOf(raw, made[i].node),
                                                 PathOf(raw, made[j].node))

\* A parse is done that went through a frame, a frame below it and a later
\* sibling, fetched an icon, and created entries for a node and then for a
\* node below it
C21_Witness ==
    \E r \in DOMAIN requests :
        /\ Done(r)
        /\ Len(requests[r].log) >= 1
        /\ \E i, j \in DOMAIN RunOf(r).parsed :
              /\ i < j
              /\ Len(PathOf(RawOf(r), RunOf(r).parsed[i])) = 2
              /\ Len(PathOf(RawOf(r), RunOf(r).parsed[j])) = 1
        /\ \E i, j \in DOMAIN RunOf(r).made :
              /\ i < j
              /\ PathOf(RawOf(r), RunOf(r).made[i].node)
                    \in Above(PathOf(RawOf(r), RunOf(r).made[j].node))

(***************************************************************************)
(* Server configuration                                                    *)
(*                                                                         *)
(* getServerConfig reads the command line (through yargs) and the          *)
(* environment (after dotenv has loaded the .env file into it).  A command *)
(* line and an environment are functions from the names given or set to    *)
(* their values; strings are sequences of characters, an empty function is *)
(* <<>>.                                                                   *)
(***************************************************************************)
DefaultPort == 3333

DefaultQuality == 80

LowestQuality == 1

HighestQuality == 100

JsNaN == <<"NaN">>

\* The leading decimal digits of a string
RECURSIVE DigitPrefix(_)
DigitPrefix(s) ==
    IF s = <<>> \/ ~IsDigit(s[1]) THEN <<>>
    ELSE <<s[1]>> \o DigitPrefix(Tail(s))

\* The number a sequence of decimal digits denotes
RECURSIVE DecimalValue(_)
DecimalValue(digits) ==
    IF digits = <<>> THEN 0
    ELSE 10 * DecimalValue(SubSeq(digits, 1, Len(digits) - 1))
            + (CHOOSE d \in 0 .. 9 : DigitChars[d + 1] = digits[Len(digits)])

\* parseInt(s, 10) for a string without sign or leading blanks
ParseInt(s) ==
    IF DigitPrefix(s) = <<>> THEN JsNaN ELSE JsNumber(DecimalValue(DigitPrefix(s)))

\* if (obj[key]) for a key that holds a string, a number, a boolean
TruthyString(obj, key) == key \in DOMAIN obj /\ obj[key] # <<>>

TruthyNumber(obj, key) == key \in DOMAIN obj /\ obj[key] # 0

TruthyBoolean(obj, key) == key \in DOMAIN obj /\ obj[key]

\* The defaults the options of yargs declare
YargsDefaults ==
    ("json" :> FALSE) @@ ("webp-enabled" :> FALSE)
        @@ ("webp-quality" :> DefaultQuality) @@ ("webp-keep-original" :> FALSE)

\* yargs(...).options(...).parseSync(): the value of each flag given, and
\* the declared default of each flag that is not
ParseSync(cli, defaults) == cli @@ defaults

\* if (argv[flag]) {cli} else if (process.env[name]) {env}, for a string
\* setting that starts as "" with the source initial
StringSetting(argv, flag, env, name, initial) ==
    IF TruthyString(argv, flag) THEN [value |-> argv[flag], source |-> "cli"]
    ELSE IF TruthyString(env, name) THEN [value |-> env[name], source |-> "env"]
    ELSE [value |-> <<>>, source |-> initial]

\* The PORT setting
PortSetting(argv, env) ==
    IF TruthyNumber(argv, "port") THEN [value |-> JsNumber(argv["port"]), source |-> "cli"]
    ELSE IF TruthyString(env, "PORT") THEN [value |-> ParseInt(env["PORT"]), source |-> "env"]
    ELSE [value |-> JsNumber(DefaultPort), source |-> "default"]

\* The output format
OutputFormatSetting(argv, env) ==
    IF TruthyBoolean(argv, "json") THEN [value |-> <<"j", "s", "o", "n">>, source |-> "cli"]
    ELSE IF TruthyString(env, "OUTPUT_FORMAT")
         THEN [value |-> env["OUTPUT_FORMAT"], source |-> "env"]
    ELSE [value |-> <<"y", "a", "m", "l">>, source |-> "default"]

\* process.env[name].toLowerCase() === "true"
EnvIsTrue(env, name) == ToLowerCase(env[name]) = <<"t", "r", "u", "e">>

\* A boolean WebP setting: argv[flag] !== undefined decides
WebpSwitch(argv, flag, env, name) ==
    IF flag \in DOMAIN argv THEN [value |-> argv[flag], source |-> "cli"]
    ELSE IF TruthyString(env, name) THEN [value |-> EnvIsTrue(env, name), source |-> "env"]
    ELSE [value |-> FALSE, source |-> "default"]

\* Math.min(100, Math.max(1, n))
ClampQuality(n) ==
    IF n < LowestQuality THEN LowestQuality
    ELSE IF n > HighestQuality THEN HighestQuality ELSE n

\* The WebP quality
WebpQualitySetting(argv, env) ==
    IF "webp-quality" \in DOMAIN argv
    THEN [value |-> ClampQuality(argv["webp-quality"]), source |-> "cli"]
    ELSE IF TruthyString(env, "WEBP_QUALITY")
              /\ ParseInt(env["WEBP_QUALITY"]) # JsNaN
              /\ ParseInt(env["WEBP_QUALITY"])[2] >= LowestQuality
              /\ ParseInt(env["WEBP_QUALITY"])[2] <= HighestQuality
         THEN [value |-> ParseInt(env["WEBP_QUALITY"])[2], source |-> "env"]
    ELSE [value |-> DefaultQuality, source |-> "default"]

\* getServerConfig of the server with the WebP settings: the configuration
\* it returns, or the exit of the process when there is neither an API key
\* nor an OAuth token
GetServerConfig(cli, env) ==
    LET argv == ParseSync(cli, YargsDefaults)
        figmaApiKey == StringSetting(argv, "figma-api-key", env, "FIGMA_API_KEY", "env")
        figmaOAuthToken ==
            StringSetting(argv, "figma-oauth-token", env, "FIGMA_OAUTH_TOKEN", "none")
        port == PortSetting(argv, env)
        outputFormat == OutputFormatSetting(argv, env)
        webpEnabled == WebpSwitch(argv, "webp-enabled", env, "WEBP_ENABLED")
        webpQuality == WebpQualitySetting(argv, env)
        webpKeepOriginal == WebpSwitch(argv, "webp-keep-original", env, "WEBP_KEEP_ORIGINAL")
    IN  IF figmaApiKey.value = <<>> /\ figmaOAuthToken.value = <<>>
        THEN [status |-> "exit"]
        ELSE [status |-> "ok",
              auth |-> [figmaApiKey |-> figmaApiKey.value,
                        figmaOAuthToken |-> figmaOAuthToken.value,
                        useOAuth |-> figmaOAuthToken.value # <<>>],
              port |-> port.value,
              outputFormat |-> outputFormat.value,
              webp |-> [enabled |-> webpEnabled.value,
                        quality |-> webpQuality.value,
                        keepOriginal |-> webpKeepOriginal.value],
              configSources |->
                  [figmaApiKey |-> figmaApiKey.source,
                   figmaOAuthToken |-> figmaOAuthToken.source,
                   port |-> port.source,
                   outputFormat |-> outputFormat.source,
                   webpEnabled |-> webpEnabled.source,
                   webpQuality |-> webpQuality.source,
                   webpKeepOriginal |-> webpKeepOriginal.source,
                   envFile |-> IF TruthyString(argv, "env") THEN "cli" ELSE "default"]]

\* getServerConfig of the server with the GitLab settings; yargs declares no
\* default there
GetServerConfigGitLab(cli, env) ==
    LET argv == ParseSync(cli, <<>>)
        figmaApiKey == StringSetting(argv, "figma-api-key", env, "FIGMA_API_KEY", "env")
        port == PortSetting(argv, env)
        gitlabToken == StringSetting(argv, "gitlab-token", env, "GITLAB_TOKEN", "none")
        gitlabBaseUrl == StringSetting(argv, "gitlab-base-url", env, "GITLAB_BASE_URL", "none")
        gitlabProjectId ==
            StringSetting(argv, "gitlab-project-id", env, "GITLAB_PROJECT_ID", "none")
        gitlabBranch == StringSetting(argv, "gitlab-branch", env, "GITLAB_BRANCH", "none")
    IN  IF figmaApiKey.value = <<>>
        THEN [status |-> "exit"]
        ELSE [status |-> "ok",
              figmaApiKey |-> figmaApiKey.value,
              port |-> port.value,
              gitlabToken |-> gitlabToken.value,
              gitlabBaseUrl |-> gitlabBaseUrl.value,
              gitlabProjectId |-> gitlabProjectId.value,
              gitlabBranch |-> gitlabBranch.value,
              configSources |->
                  [figmaApiKey |-> figmaApiKey.source,
                   port |-> port.source,
                   gitlabToken |-> gitlabToken.source,
                   gitlabBaseUrl |-> gitlabBaseUrl.source,
                   gitlabProjectId |-> gitlabProjectId.source,
                   gitlabBranch |-> gitlabBranch.source]]

(***************************************************************************)
(* Specification of the server start                                       *)
(*                                                                         *)
(* The process is launched with a command line and an environment, and     *)
(* getServerConfig runs once.                                              *)
(***************************************************************************)
\* A name that is absent, or present with one of the values
Opt(name, values) == {<<>>} \cup {name :> v : v \in values}

\* The command lines and the environments of the server with WebP settings
CommandLines ==
    {key @@ token @@ port @@ json @@ enabled @@ quality @@ keep :
        key \in Opt("figma-api-key", {<<"k", "c">>}),
        token \in Opt("figma-oauth-token", {<<"t", "c">>}),
        port \in Opt("port", {0, 8080}),
        json \in Opt("json", BOOLEAN),
        enabled \in Opt("webp-enabled", {TRUE}),
        quality \in Opt("webp-quality", {50}),
        keep \in Opt("webp-keep-original", {TRUE})}

Environments ==
    {key @@ token @@ port @@ format @@ enabled @@ quality @@ keep :
        key \in Opt("FIGMA_API_KEY", {<<"k", "e">>}),
        token \in Opt("FIGMA_OAUTH_TOKEN", {<<"t", "e">>}),
        port \in Opt("PORT", {<<"3", "0", "0", "0">>}),
        format \in Opt("OUTPUT_FORMAT", {<<"j", "s", "o", "n">>}),
        enabled \in Opt("WEBP_ENABLED", {<<"T", "r", "u", "e">>}),
        quality \in Opt("WEBP_QUALITY", {<<"9", "0">>}),
        keep \in Opt("WEBP_KEEP_ORIGINAL", {<<"t", "r", "u", "e">>})}

\* Those of the server with GitLab settings
GitLabCommandLines ==
    {key @@ port @@ token @@ url @@ project @@ branch :
        key \in Opt("figma-api-key", {<<"k", "c">>}),
        port \in Opt("port", {0, 8080}),
        token \in Opt("gitlab-token", {<<"g", "c">>}),
        url \in Opt("gitlab-base-url", {<<"u", "c">>}),
        project \in Opt("gitlab-project-id", {<<"p", "c">>}),
        branch \in Opt("gitlab-branch", {<<"b", "c">>})}

GitLabEnvironments ==
    {key @@ port @@ token @@ url @@ project @@ branch :
        key \in Opt("FIGMA_API_KEY", {<<"k", "e">>}),
        port \in Opt("PORT", {<<"3", "0", "0", "0">>}),
        token \in Opt("GITLAB_TOKEN", {<<"g", "e">>}),
        url \in Opt("GITLAB_BASE_URL", {<<"u", "e">>}),
        project \in Opt("GITLAB_PROJECT_ID", {<<"p", "e">>}),
        branch \in Opt("GITLAB_BRANCH", {<<"b", "e">>})}

Launched(server, cli, env) ==
    [server |-> server, cli |-> cli, env |-> env, result |-> [status |-> "none"]]

\* The server with WebP settings starts
StartServer ==
    /\ pc = "launch"
    /\ config.server = "figma"
    /\ config' = [config EXCEPT !.result = GetServerConfig(config.cli, config.env)]
    /\ pc' = IF config'.result.status = "ok" THEN "serving" ELSE "exited"
    /\ UNCHANGED <<nodes, globalVars, shortened, flat, issued, requests, tmpDir, sseTransport>>

\* The server with GitLab settings starts
StartGitLabServer ==
    /\ pc = "launch"
    /\ config.server = "gitlab"
    /\ config' = [config EXCEPT !.result = GetServerConfigGitLab(config.cli, config.env)]
    /\ pc' = IF config'.result.status = "ok" THEN "serving" ELSE "exited"
    /\ UNCHANGED <<nodes, globalVars, shortened, flat, issued, requests, tmpDir, sseTransport>>

NextConfig ==
    \/ StartServer
    \/ StartGitLabServer

InitConfig ==
    /\ pc = "launch"
    /\ nodes = <<>>
    /\ globalVars = [styles |-> <<>>, icons |-> <<>>]
    /\ shortened = NoResult
    /\ flat = NoResult
    /\ issued = <<>>
    /\ requests = <<>>
    /\ tmpDir = <<>>
    /\ \/ \E cli \in CommandLines, env \in Environments :
             config = Launched("figma", cli, env)
       \/ \E cli \in GitLabCommandLines, env \in GitLabEnvironments :
             config = Launched("gitlab", cli, env)
    /\ sseTransport = NoTransport

SpecConfig == InitConfig /\ [][NextConfig]_vars

(***************************************************************************)
(* Properties of the server configuration                                  *)
(***************************************************************************)
\* A value taken from the command line, from the environment, from neither
FromCli(value) == [value |-> value, sources |-> {"cli"}]

FromEnv(value) == [value |-> value, sources |-> {"env"}]

FromNeither(value) == [value |-> value, sources |-> {"default", "none"}]

\* What the precedence rule gives each kind of setting: the value of the
\* flag when the flag was given, else the value of the variable when it is
\* set, else the default
RuleForString(cli, flag, env, name) ==
    IF flag \in DOMAIN cli THEN FromCli(cli[flag])
    ELSE IF name \in DOMAIN env THEN FromEnv(env[name])
    ELSE FromNeither(<<>>)

RuleForPort(cli, env) ==
    IF "port" \in DOMAIN cli THEN FromCli(JsNumber(cli["port"]))
    ELSE IF "PORT" \in DOMAIN env THEN FromEnv(ParseInt(env["PORT"]))
    ELSE FromNeither(JsNumber(DefaultPort))

RuleForOutputFormat(cli, env) ==
    IF "json" \in DOMAIN cli
    THEN FromCli(IF cli["json"] THEN <<"j", "s", "o", "n">> ELSE <<"y", "a", "m", "l">>)
    ELSE IF "OUTPUT_FORMAT" \in DOMAIN env THEN FromEnv(env["OUTPUT_FORMAT"])
    ELSE FromNeither(<<"y", "a", "m", "l">>)

RuleForSwitch(cli, flag, env, name) ==
    IF flag \in DOMAIN cli THEN FromCli(cli[flag])
    ELSE IF name \in DOMAIN env THEN FromEnv(EnvIsTrue(env, name))
    ELSE FromNeither(FALSE)

RuleForQuality(cli, env) ==
    IF "webp-quality" \in DOMAIN cli THEN FromCli(cli["webp-quality"])
    ELSE IF "WEBP_QUALITY" \in DOMAIN env THEN FromEnv(ParseInt(env["WEBP_QUALITY"])[2])
    ELSE FromNeither(DefaultQuality)

\* The configuration holds the value of the rule and records its source
Follows(value, source, rule) == value = rule.value /\ source \in rule.sources

\* C20: for every setting with a flag and an environment variable, the
\* configuration getServerConfig returns holds the value of the command
\* line when the flag was given, else that of the environment when the
\* variable is set, else the default, and the source recorded for the
\* setting names the one used.
C20_Precedence ==
    config.result.status = "ok" =>
        LET c == config.result
            cli == config.cli
            env == config.env
        IN  IF config.server = "figma"
            THEN /\ Follows(c.auth.figmaApiKey, c.configSources.figmaApiKey,
                            RuleForString(cli, "figma-api-key", env, "FIGMA_API_KEY"))
                 /\ Follows(c.auth.figmaOAuthToken, c.configSources.figmaOAuthToken,
                            RuleForString(cli, "figma-oauth-token", env, "FIGMA_OAUTH_TOKEN"))
                 /\ Follows(c.port, c.configSources.port, RuleForPort(cli, env))
                 /\ Follows(c.outputFormat, c.configSources.outputFormat,
                            RuleForOutputFormat(cli, env))
                 /\ Follows(c.webp.enabled, c.configSources.webpEnabled,
                            RuleForSwitch(cli, "webp-enabled", env, "WEBP_ENABLED"))
                 /\ Follows(c.webp.quality, c.configSources.webpQuality,
                            RuleForQuality(cli, env))
                 /\ Follows(c.webp.keepOriginal, c.configSources.webpKeepOriginal,
                            RuleForSwitch(cli, "webp-keep-original", env,
                                          "WEBP_KEEP_ORIGINAL"))
            ELSE /\ Follows(c.figmaApiKey, c.configSources.figmaApiKey,
                            RuleForString(cli, "figma-api-key", env, "FIGMA_API_KEY"))
                 /\ Follows(c.port, c.configSources.port, RuleForPort(cli, env))
                 /\ Follows(c.gitlabToken, c.configSources.gitlabToken,
                            RuleForString(cli, "gitlab-token", env, "GITLAB_TOKEN"))
                 /\ Follows(c.gitlabBaseUrl, c.configSources.gitlabBaseUrl,
                            RuleForString(cli, "gitlab-base-url", env, "GITLAB_BASE_URL"))
                 /\ Follows(c.gitlabProjectId, c.configSources.gitlabProjectId,
                            RuleForString(cli, "gitlab-project-id", env, "GITLAB_PROJECT_ID"))
                 /\ Follows(c.gitlabBranch, c.configSources.gitlabBranch,
                            RuleForString(cli, "gitlab-branch", env, "GITLAB_BRANCH"))

(***************************************************************************)
(* The order of the extractors                                             *)
(*                                                                         *)
(* parseNode runs its extractors in one order.  To compare that order with *)
(* the others, the extractors of one raw node are run in any order on the  *)
(* table the nodes before it have left.                                    *)
(***************************************************************************)
\* The extractors that store a reference
RefExtractors == {"textStyle", "fills", "strokes", "effects", "layout"}

\* The field of the raw node an extractor reads
ReadsField(extractor) == IF extractor = "textStyle" THEN "style" ELSE extractor

\* The extractors that have something to read in a raw node; the others
\* do nothing, whatever their place
Applicable(n) == {e \in RefExtractors : ReadsField(e) \in DOMAIN n}

\* Every order of a set of extractors
Orders(extractors) ==
    {o \in [1 .. Cardinality(extractors) -> extractors] : Range(o) = extractors}

\* The extractor statements of parseNode run in the given order
RECURSIVE ExtractInOrder(_, _, _, _)
ExtractInOrder(r, n, order, i) ==
    IF i > Len(order) THEN r
    ELSE ExtractInOrder(Extract(r, n, order[i]), n, order, i + 1)

\* What the raw node holds for a stroke, an effect and a layout descriptor
RawStrokes == <<<<<<"c", "o", "l", "o", "r", "s">>, JsNumber(1)>>>>

RawEffects == <<<<<<"b", "o", "x", "S", "h", "a", "d", "o", "w">>, JsNumber(1)>>>>

RawLayout == <<<<<<"m", "o", "d", "e">>, JsNumber(1)>>>>

\* The raw nodes: a text node with or without a style, with or without
\* fills, and with at most one of the three descriptors
ExtractNodes ==
    {("id" :> NodeIds[1]) @@ ("name" :> <<"T", "i", "t", "l", "e">>) @@ ("type" :> "TEXT")
        @@ style @@ fills @@ descriptor :
        style \in Opt("style", {RawStyle(16)}),
        fills \in Opt("fills", {<<SolidPaint(1)>>, <<SolidPaint(2)>>}),
        descriptor \in Opt("strokes", {RawStrokes}) \cup Opt("effects", {RawEffects})
                          \cup Opt("layout", {RawLayout})}

\* The tables the nodes before can have left: none, or the fill of an
\* earlier node
TablesBefore ==
    {<<>>} \cup {FindOrCreateVar(<<>>, ParsePaints(<<SolidPaint(1)>>),
                                 <<"f", "i", "l", "l">>, nonce).styles : nonce \in Nonces}

\* The walk and the simplified node at the first extractor of parseNode
BeforeExtractors(n, table, nonces) ==
    [w |-> [StartWalk(<<>>, nonces) EXCEPT !.globalVars.styles = table],
     node |-> [id |-> n["id"], name |-> n["name"], type |-> n["type"]]]

\* The nonces the extractors can draw, in a given order and in the order
\* of parseNode
RECURSIVE OrderStreams(_, _, _, _)
OrderStreams(n, table, order, drawn) ==
    IF ExtractInOrder(BeforeExtractors(n, table, drawn), n, order, 1).w.status = "starved"
    THEN UNION {OrderStreams(n, table, order, Append(drawn, nonce)) : nonce \in Nonces}
    ELSE {drawn}

RECURSIVE CodeStreams(_, _, _)
CodeStreams(n, table, drawn) ==
    IF ExtractFrom(BeforeExtractors(n, table, drawn), n, 1).w.status = "starved"
    THEN UNION {CodeStreams(n, table, Append(drawn, nonce)) : nonce \in Nonces}
    ELSE {drawn}

\* The extractors of the node run in some order; requests records the
\* order, the nonces drawn and the outcome
ExtractPermuted ==
    /\ pc = "extract"
    /\ \E order \in Orders(Applicable(nodes[1])) :
          \E stream \in OrderStreams(nodes[1], globalVars.styles, order, <<>>) :
              requests' =
                  <<[order |-> order,
                     nonces |-> stream,
                     run |-> ExtractInOrder(
                                 BeforeExtractors(nodes[1], globalVars.styles, stream),
                                 nodes[1], order, 1)]>>
    /\ pc' = "extracted"
    /\ UNCHANGED <<nodes, globalVars, shortened, flat, issued, tmpDir, config, sseTransport>>

NextOrder == ExtractPermuted

InitOrder ==
    /\ pc = "extract"
    /\ shortened = NoResult
    /\ flat = NoResult
    /\ issued = <<>>
    /\ requests = <<>>
    /\ tmpDir = <<>>
    /\ config = <<>>
    /\ \E n \in ExtractNodes, table \in TablesBefore :
          /\ nodes = <<n>>
          /\ globalVars = [styles |-> table, icons |-> <<>>]
    /\ sseTransport = NoTransport

SpecOrder == InitOrder /\ [][NextOrder]_vars

\* The categories and values of a table
Holds(styles) == {<<CategoryOf(styles[i].id), Stringify(styles[i].value)>> : i \in DOMAIN styles}

\* Two outcomes of the extractors of a node are the same: each reference
\* field resolves to the same value under an id of the same category, and
\* the tables hold the same values under ids of the same categories
SameOutcome(x, y) ==
    /\ x.w.status = y.w.status
    /\ \A f \in PropertiesToUpdate :
          /\ f \in DOMAIN x.node <=> f \in DOMAIN y.node
          /\ f \in DOMAIN x.node =>
                /\ CategoryOf(x.node[f]) = CategoryOf(y.node[f])
                /\ Stringify(TableGet(x.w.globalVars.styles, x.node[f]))
                      = Stringify(TableGet(y.w.globalVars.styles, y.node[f]))
    /\ Holds(x.w.globalVars.styles) = Holds(y.w.globalVars.styles)

LoopAt(i) ==
    ShortenLoop([idMap |-> <<>>, styles |-> <<>>, counters |-> <<>>, prefixMap |-> <<>>],
                SubSeq(globalVars.styles, 1, i - 1), 1)

\* The short prefix under which the run issued the short id of a long id
ShortPrefixOf(id) == StripDigits(shortened.idMap[id])

\* The lengths of the leading substrings of a lower-cased prefix that are
\* unbound, or bound to that prefix, when entry i is reached
FreeLengths(lower, i) ==
    {k \in 1 .. Len(lower) :
        \/ SubSeq(lower, 1, k) \notin DOMAIN LoopAt(i).prefixMap
        \/ LoopAt(i).prefixMap[SubSeq(lower, 1, k)] = lower}

\* The short ids the tests expect, in table order: l1, f1, s1; f1, f2, f3;
\* f1, fr1, fo1
TestShortIds ==
    <<<<<<"l", "1">>, <<"f", "1">>, <<"s", "1">>>>,
      <<<<"f", "1">>, <<"f", "2">>, <<"f", "3">>>>,
      <<<<"f", "1">>, <<"f", "r", "1">>, <<"f", "o", "1">>>>>>

\* The keys of a table in table order
KeySeq(table) == [i \in DOMAIN table |-> table[i].id]

\* C23: for an id matching <letters>_<alnum>, the short prefix chosen is the
\* shortest leading substring of the lower-cased letter prefix that, when
\* the id is processed, is unbound or already bound to that same prefix, and
\* the _fallback form when there is none; all ids of one original prefix get
\* the same short prefix; and the tables of the tests get l1, f1, s1 and
\* f1, fr1, fo1.
C23_ShortestPrefix ==
    Shortened =>
        /\ \A i \in DOMAIN globalVars.styles :
              LET id == globalVars.styles[i].id
                  lower == ToLowerCase(IdMatch(id).prefix)
              IN  IdMatch(id).matched =>
                    /\ ShortPrefixOf(id) =
                          IF FreeLengths(lower, i) = {}
                          THEN lower \o FallbackSuffix
                          ELSE SubSeq(lower, 1, Min(FreeLengths(lower, i)))
                    /\ \A j \in DOMAIN globalVars.styles :
                          OriginOf(globalVars.styles[j].id) = OriginOf(id)
                              => ShortPrefixOf(globalVars.styles[j].id) = ShortPrefixOf(id)
        /\ \A t \in {1, 3} :
              KeySeq(globalVars.styles) = TestIds[t] =>
                  \A i \in DOMAIN TestIds[t] :
                      shortened.idMap[TestIds[t][i]] = TestShortIds[t][i]

\* C23 witness: a run gave two ids of one prefix the same short prefix and
\* gave another prefix a short prefix of more than one letter.
C23_Witness ==
    /\ Shortened
    /\ \E a, b \in TableKeys(globalVars.styles) :
          /\ a # b
          /\ IdMatch(a).matched
          /\ OriginOf(a) = OriginOf(b)
          /\ ~EndsWithFallback(ShortPrefixOf(a))
    /\ \E c \in TableKeys(globalVars.styles) :
          /\ IdMatch(c).matched
          /\ Len(ShortPrefixOf(c)) > 1
          /\ ~EndsWithFallback(ShortPrefixOf(c))

\* The short ids issued, in the order of issue (the keys of the shortened
\* table), and the short prefix of the i-th
IssuedIds == KeySeq(shortened.shortenedGlobalVars.styles)

IssuedPrefix(i) == StripDigits(IssuedIds[i])

\* The place of a key in globalVars.styles
PlaceOf(key) == CHOOSE i \in DOMAIN globalVars.styles : globalVars.styles[i].id = key

\* C24: the ids issued under one short prefix are numbered 1, 2, 3, ...
\* without gaps or repeats in the order of their long ids in
\* globalVars.styles, whatever the nodes reference and whatever other short
\* prefixes are in use: the i-th id issued carries the number of ids issued
\* so far under its short prefix; fill_123ABC, fill_456DEF, fill_789GHI
\* become f1, f2, f3.
C24_Numbering ==
    Shortened =>
        /\ Len(IssuedIds) = Len(globalVars.styles)
        /\ \A i \in DOMAIN IssuedIds :
              IssuedIds[i] =
                  IssuedPrefix(i) \o
                      NumToStr(Cardinality({j \in 1 .. i : IssuedPrefix(j) = IssuedPrefix(i)}))
        /\ \A i \in DOMAIN globalVars.styles :
              globalVars.styles[i].id \in DOMAIN shortened.idMap
                  => shortened.idMap[globalVars.styles[i].id] = IssuedIds[i]
        /\ KeySeq(globalVars.styles) = TestIds[2] =>
              \A i \in DOMAIN TestIds[2] :
                  shortened.idMap[TestIds[2][i]] = TestShortIds[2][i]

\* C24 witness: a run issued two ids under one short prefix with an id of
\* another short prefix between them, and an earlier node referenced the
\* later of the two while a later node referenced the earlier.
C24_Witness ==
    /\ Shortened
    /\ \E i, j, k \in DOMAIN IssuedIds :
          /\ i < j /\ j < k
          /\ IssuedPrefix(i) = IssuedPrefix(k)
          /\ IssuedPrefix(j) # IssuedPrefix(i)
          /\ \E p, q \in PathsOf(nodes) :
                /\ PreOrderBefore(p, q)
                /\ \E f \in RefPropsOf(NodeAt(nodes, p)), g \in RefPropsOf(NodeAt(nodes, q)) :
                      /\ NodeAt(nodes, p)[f] = globalVars.styles[k].id
                      /\ NodeAt(nodes, q)[g] = globalVars.styles[i].id
                      /\ NodeAt(shortened.shortenedNodes, p)[f] = IssuedIds[k]
                      /\ NodeAt(shortened.shortenedNodes, q)[g] = IssuedIds[i]

\* C25: shortenGlobalVarIds returns for every table; an id whose prefix has
\* all its leading substrings, the whole name included, bound to other
\* prefixes gets the short prefix <prefix>_fallback, and an id that does not
\* match <letters>_<alnum> gets the short prefix unk; in both cases a short
\* id is issued, recorded in idMap and stored in the shortened table with
\* the value of the long id, and the ids after it are processed as well.
C25_FallbackNeverRaises ==
    Shortened =>
        /\ Len(IssuedIds) = Len(globalVars.styles)
        /\ \A i \in DOMAIN globalVars.styles :
              LET id == globalVars.styles[i].id
                  lower == ToLowerCase(IdMatch(id).prefix)
                  viaFallback == IdMatch(id).matched /\ FreeLengths(lower, i) = {}
                  viaUnk == ~IdMatch(id).matched
              IN  /\ viaFallback => IssuedPrefix(i) = lower \o FallbackSuffix
                  /\ viaUnk => IssuedPrefix(i) = UnkPrefix
                  /\ viaFallback \/ viaUnk =>
                        /\ Len(IssuedIds[i]) > Len(IssuedPrefix(i))
                        /\ id \in DOMAIN shortened.idMap
                        /\ shortened.idMap[id] = IssuedIds[i]
                        /\ shortened.shortenedGlobalVars.styles[i].value
                              = globalVars.styles[i].value

\* C26: the rewrite changes nothing but references that are keys of the
\* table: the shortened forest has the shape of the original, every node
\* has the fields it had, and a field other than children differs from the
\* original only when it is one of fills, strokes, effects, layout,
\* textStyle, styles and its original value is a string that is a key of
\* globalVars.styles; and flattenNodes of the shortened forest gives, for
\* every node, an entry with every field of the node except children.
C26_OnlyReferences ==
    Shortened =>
        /\ PathsOf(shortened.shortenedNodes) = PathsOf(nodes)
        /\ \A p \in PathsOf(nodes) :
              LET old == NodeAt(nodes, p)
                  new == NodeAt(shortened.shortenedNodes, p)
              IN  /\ DOMAIN new = DOMAIN old
                  /\ \A f \in DOMAIN old \ {"children"} :
                        new[f] # old[f] =>
                            /\ f \in PropertiesToUpdate
                            /\ IsJsString(old[f])
                            /\ old[f] \in TableKeys(globalVars.styles)
        /\ LET entries == FlattenNodes(shortened.shortenedNodes).nodes
           IN  /\ Len(entries) = Cardinality(PathsOf(nodes))
               /\ \A p \in PathsOf(nodes) :
                     \E k \in DOMAIN entries :
                         entries[k] = WithoutChildren(NodeAt(shortened.shortenedNodes, p))

(***************************************************************************)
(* The table of icons                                                      *)
(*                                                                         *)
(* The icons of a design, in the order in which parseNode obtains them:    *)
(* each has the name of its node and the content fetched for it.           *)
(***************************************************************************)
\* The names of the icon nodes: Close, icon/close, Menu
IconNames ==
    {<<"C", "l", "o", "s", "e">>,
     <<"i", "c", "o", "n", "/", "c", "l", "o", "s", "e">>,
     <<"M", "e", "n", "u">>}

\* The most icons of one design
MaxIcons == 3

\* Before the first icon of the design; nodes holds the name and the
\* fetched content of each icon node
InitIcons ==
    /\ pc = "icons"
    /\ \E n \in 1 .. MaxIcons :
          nodes \in [1 .. n -> [name : IconNames, content : Range(SvgFiles)]]
    /\ globalVars = [styles |-> <<>>, icons |-> <<>>]
    /\ shortened = NoResult
    /\ flat = NoResult
    /\ issued = <<>>
    /\ requests = <<>>
    /\ tmpDir = <<>>
    /\ config = <<>>
    /\ sseTransport = NoTransport

\* parseNode on the next icon node: buildSimplifiedIcon names the icon after
\* the node and the fetched content, findOrCreateVarForIcons stores it, and
\* the node gets the file name as its icon reference (recorded in issued)
StoreIcon ==
    /\ pc = "icons"
    /\ Len(issued) < Len(nodes)
    /\ LET n == nodes[Len(issued) + 1]
           icon == [type |-> "svg",
                    fileName |-> GenerateFileMd5Name(n.content, n.name),
                    content |-> n.content]
           stored == FindOrCreateVarForIcons(icon, globalVars.icons)
       IN  /\ globalVars' = [globalVars EXCEPT !.icons = stored.icons]
           /\ issued' = Append(issued, stored.fileName)
    /\ UNCHANGED <<pc, nodes, shortened, flat, requests, tmpDir, config, sseTransport>>

NextIcons == StoreIcon

SpecIcons == InitIcons /\ [][NextIcons]_vars

\* C27: the file name of an icon is unique to its content: two icon nodes
\* whose fetched content differs never carry the same file name, every
\* node's icon reference resolves to the content fetched for that node, and
\* icons of identical content are stored once and shared.
C27_NameUniqueToContent ==
    pc = "icons" =>
        /\ \A i, j \in DOMAIN issued :
              /\ nodes[i].content # nodes[j].content => issued[i] # issued[j]
              /\ nodes[i].content = nodes[j].content => issued[i] = issued[j]
        /\ \A i \in DOMAIN issued :
              /\ issued[i] \in TableKeys(globalVars.icons)
              /\ TableGet(globalVars.icons, issued[i]).content = nodes[i].content
        /\ \A a, b \in DOMAIN globalVars.icons :
              a # b => globalVars.icons[a].value.content # globalVars.icons[b].value.content

(***************************************************************************)
(* The second application of the ID Compressor                             *)
(***************************************************************************)
Reshortened == pc = "reshortened"

\* The table and the nodes the second application was given, and its result
FirstTable == shortened.shortenedGlobalVars.styles

FirstNodes == shortened.shortenedNodes

Second == issued[1]

\* The entries of the first table that the second application files under
\* unk, up to entry i
FiledUnderUnk(i) == {j \in 1 .. i : ~IdMatch(FirstTable[j].id).matched}

\* Every node reference that was a key of the table given to the second
\* application resolves, after it, to the value it resolved to before, and
\* the second application maps no two ids to the same new id
SecondKeepsReferences ==
    /\ PathsOf(Second.shortenedNodes) = PathsOf(FirstNodes)
    /\ \A p \in PathsOf(FirstNodes) :
          \A f \in RefPropsOf(NodeAt(FirstNodes, p)) :
              LET old == NodeAt(FirstNodes, p)[f]
                  new == NodeAt(Second.shortenedNodes, p)[f]
              IN  IsJsString(old) /\ old \in TableKeys(FirstTable) =>
                      /\ new \in TableKeys(Second.shortenedGlobalVars.styles)
                      /\ TableGet(Second.shortenedGlobalVars.styles, new)
                            = TableGet(FirstTable, old)
    /\ DOMAIN Second.idMap = TableKeys(FirstTable)
    /\ \A a, b \in DOMAIN Second.idMap : a # b => Second.idMap[a] # Second.idMap[b]

----------------------------------------------------------------------------
\* The HTTP server: one slot for the SSE transport.
\*
\* startHttpServer registers two handlers.  Each runs without interruption
\* up to its first await: GET /sse has filled the slot before it awaits
\* server.connect, and POST /messages has read the slot before it awaits
\* handlePostMessage.  The slot is never cleared.

Clients == {"first", "second"}

MaxHttpRequests == 5

\* new SSEServerTransport("/messages", res): the transports are numbered in
\* the order of their creation, and each writes to the response of the
\* client whose GET created it.
NewTransport(created, client) == [id |-> Len(created) + 1, client |-> client]

AssignTransportOnce(slot, created) == IF slot = NoTransport THEN created ELSE slot

\* this.sseTransport = new SSEServerTransport(...)
AssignTransport(slot, created) == created

\* One line of the log of requests served.
Served(method, client, status, transport) ==
    [method |-> method, client |-> client, status |-> status, transport |-> transport]

InitSse ==
    /\ pc = "listening"
    /\ nodes = <<>>
    /\ globalVars = [styles |-> <<>>]
    /\ shortened = NoResult
    /\ flat = <<>>
    /\ issued = <<>>
    /\ requests = <<>>
    /\ tmpDir = <<>>
    /\ config = <<>>
    /\ sseTransport = NoTransport

\* app.get("/sse", ...)
GetSse(client) ==
    /\ pc = "listening"
    /\ Len(requests) < MaxHttpRequests
    /\ LET created == NewTransport(issued, client)
       IN  /\ issued' = Append(issued, created)
           /\ sseTransport' = AssignTransport(sseTransport, created)
           /\ requests' = Append(requests, Served("GET", client, 200, created))
    /\ UNCHANGED <<pc, nodes, globalVars, shortened, flat, tmpDir, config>>

\* app.post("/messages", ...)
PostMessages(client) ==
    /\ pc = "listening"
    /\ Len(requests) < MaxHttpRequests
    /\ requests' =
          IF sseTransport = NoTransport
          THEN Append(requests, Served("POST", client, 400, NoTransport))
          ELSE Append(requests, Served("POST", client, 202, sseTransport))
    /\ UNCHANGED <<pc, nodes, globalVars, shortened, flat, issued, tmpDir, config,
                   sseTransport>>

NextSse ==
    \/ \E client \in Clients : GetSse(client)
    \/ \E client \in Clients : PostMessages(client)

SpecSse == InitSse /\ [][NextSse]_vars

\* The GET /sse requests served before place k of the log.
GetsBefore(k) == {j \in 1 .. k - 1 : requests[j].method = "GET"}

\* The largest of a non-empty set of places.
Latest(places) == CHOOSE j \in places : \A other \in places : other <= j

\* C29: a POST /messages served before any GET /sse is answered 400 and is
\* handled by no transport; every later POST /messages is handled by the
\* transport that the most recent GET /sse created, whoever posted it; and
\* the slot holds that transport.
C29_SingleSlot ==
    pc = "listening" =>
        /\ \A k \in DOMAIN requests :
              requests[k].method = "POST" =>
                  IF GetsBefore(k) = {}
                  THEN /\ requests[k].status = 400
                       /\ requests[k].transport = NoTransport
                  ELSE /\ requests[k].status # 400
                       /\ requests[k].transport = requests[Latest(GetsBefore(k))].transport
        /\ sseTransport =
              IF GetsBefore(Len(requests) + 1) = {}
              THEN NoTransport
              ELSE requests[Latest(GetsBefore(Len(requests) + 1))].transport

\* A POST was refused before the first GET; then the first client connected
\* and posted, the second client connected, and a message posted by the
\* first client was handled by the second client's transport.
C29_Witness ==
    /\ pc = "listening"
    /\ Len(requests) = 5
    /\ requests[1] = Served("POST", "first", 400, NoTransport)
    /\ requests[2].method = "GET" /\ requests[2].client = "first"
    /\ requests[3] = Served("POST", "first", 202, requests[2].transport)
    /\ requests[4].method = "GET" /\ requests[4].client = "second"
    /\ requests[5].method = "POST" /\ requests[5].client = "first"
    /\ requests[5].transport.client = "second"
    /\ requests[5].transport # requests[3].transport

----------------------------------------------------------------------------
\* convertPngToWebp: PNG files of one directory converted to WebP.
\*
\* A file name is a string; the directory is a map from the names of the
\* files it holds to what each file is.  The paths have no directory part,
\* so path.dirname is "." and path.join(dirPath, name) is the name.  The
\* sizes that the function adds up are left out: they are written to the
\* statistics only and decide nothing.

Dot == "."

DotPng == <<Dot, "p", "n", "g">>

DotWebp == <<Dot, "w", "e", "b", "p">>

\* The place of the last dot of a name, 0 when it has none.
LastDot(name) ==
    IF \E i \in DOMAIN name : name[i] = Dot
    THEN CHOOSE i \in DOMAIN name :
            /\ name[i] = Dot
            /\ \A j \in DOMAIN name : name[j] = Dot => j <= i
    ELSE 0

\* path.extname: from the last dot to the end; empty when there is no dot
\* or the only dot is the first character.
Extname(name) ==
    IF LastDot(name) <= 1 THEN <<>> ELSE SubSeq(name, LastDot(name), Len(name))

\* path.basename(name, ext): the name without ext when it ends with ext,
\* compared character by character.
Basename(name, ext) ==
    IF /\ Len(ext) < Len(name)
       /\ SubSeq(name, Len(name) - Len(ext) + 1, Len(name)) = ext
    THEN SubSeq(name, 1, Len(name) - Len(ext))
    ELSE name

\* const webpPath = path.join(dirPath, `${baseName}.webp`)
WebpPath(imagePath, ext) == Basename(imagePath, ext) \o DotWebp

\* What a file of the directory is: an image that sharp can read, a file
\* that sharp cannot read, or an image that the system refuses to unlink.
FileKinds == {"image", "corrupt", "locked"}

FileNames ==
    {<<"a">> \o DotPng, <<"a", Dot, "P", "N", "G">>, <<"b", Dot, "j", "p", "g">>,
     <<"a">> \o DotWebp}

KindsOf(name) ==
    IF name = <<"a">> \o DotPng THEN FileKinds ELSE {"image"}

\* The directories the function is run in.
Directories ==
    UNION {{dir \in [present -> FileKinds] : \A name \in present : dir[name] \in KindsOf(name)} :
              present \in SUBSET FileNames}

MaxPaths == 3

\* The arrays of paths the function is called with.
PathArrays == UNION {[1 .. n -> FileNames] : n \in 0 .. MaxPaths}

\* fs.unlinkSync
Unlink(dir, name) == [n \in DOMAIN dir \ {name} |-> dir[n]]

FileOp(op, name) == [op |-> op, name |-> name]

\* What one turn of the loop did: the directory it leaves, the files it
\* wrote and removed, and the counter it raised.
Turn(dir, ops, counted) == [dir |-> dir, ops |-> ops, counted |-> counted]

\* The inner try block: sharp(imagePath).webp({quality}).toFile(webpPath),
\* then fs.unlinkSync(imagePath) unless the original is kept.
ConvertFile(dir, keepOriginal, imagePath, webpPath) ==
    IF dir[imagePath] = "corrupt"
    THEN Turn(dir, <<>>, "errorFiles")
    ELSE LET written == MapPut(dir, webpPath, "image")
         IN  IF keepOriginal
             THEN Turn(written, <<FileOp("toFile", webpPath)>>, "convertedFiles")
             ELSE IF dir[imagePath] = "locked"
             THEN Turn(written, <<FileOp("toFile", webpPath)>>, "errorFiles")
             ELSE Turn(Unlink(written, imagePath),
                       <<FileOp("toFile", webpPath), FileOp("unlink", imagePath)>>,
                       "convertedFiles")

\* The body of the loop over imagePaths.
ConvertPath(dir, keepOriginal, imagePath) ==
    IF imagePath \notin DOMAIN dir
    THEN Turn(dir, <<>>, "errorFiles")
    ELSE LET ext == ToLowerCase(Extname(imagePath))
         IN  IF ext # DotPng
             THEN Turn(dir, <<>>, "skippedFiles")
             ELSE IF WebpPath(imagePath, ext) \in DOMAIN dir
             THEN Turn(dir, <<>>, "skippedFiles")
             ELSE ConvertFile(dir, keepOriginal, imagePath, WebpPath(imagePath, ext))

\* const stats: ConversionStats = {...}
NewStats == [totalFiles |-> 0, convertedFiles |-> 0, skippedFiles |-> 0, errorFiles |-> 0]

\* stats.<counter>++, and stats.totalFiles++ for an existing .png.
Count(stats, dir, imagePath, counted) ==
    [[stats EXCEPT ![counted] = @ + 1]
        EXCEPT !.totalFiles =
            IF imagePath \in DOMAIN dir /\ ToLowerCase(Extname(imagePath)) = DotPng
            THEN @ + 1 ELSE @]

InitConvert ==
    /\ pc = "converting"
    /\ nodes = <<>>
    /\ globalVars = [styles |-> <<>>]
    /\ shortened = NewStats
    /\ flat = <<>>
    /\ \E imagePaths \in PathArrays :
          /\ issued = imagePaths
          /\ requests = imagePaths
    /\ tmpDir \in Directories
    /\ config \in [keepOriginal : BOOLEAN]
    /\ sseTransport = NoTransport

\* One turn of `for (const imagePath of imagePaths)`: requests holds the
\* paths still to come, flat what each turn found and did.
ConvertNext ==
    /\ pc = "converting"
    /\ requests # <<>>
    /\ LET imagePath == Head(requests)
           turn == ConvertPath(tmpDir, config.keepOriginal, imagePath)
       IN  /\ tmpDir' = turn.dir
           /\ shortened' = Count(shortened, tmpDir, imagePath, turn.counted)
           /\ flat' = Append(flat, [path |-> imagePath, before |-> tmpDir,
                                    ops |-> turn.ops, counted |-> turn.counted])
    /\ requests' = Tail(requests)
    /\ UNCHANGED <<pc, nodes, globalVars, issued, config, sseTransport>>

\* return stats, after the loop or at once for an empty array.
ReturnStats ==
    /\ pc = "converting"
    /\ requests = <<>>
    /\ pc' = "returned"
    /\ UNCHANGED <<nodes, globalVars, shortened, flat, issued, requests, tmpDir, config,
                   sseTransport>>

NextConvert == ConvertNext \/ ReturnStats

SpecConvert == InitConvert /\ [][NextConvert]_vars

\* The .webp file next to a file: its name with .webp for its extension.
WebpNextTo(name) == SubSeq(name, 1, Len(name) - Len(Extname(name))) \o DotWebp

IsPngName(name) == ToLowerCase(Extname(name)) = DotPng

\* The turn removed the path it was given.
Deleted(turn) == \E j \in DOMAIN turn.ops : turn.ops[j] = FileOp("unlink", turn.path)

\* The turn wrote a .webp file before it removed its path.
WrittenBeforeDeleted(turn) ==
    \E i, j \in DOMAIN turn.ops :
        /\ i < j
        /\ turn.ops[i].op = "toFile"
        /\ Extname(turn.ops[i].name) = DotWebp
        /\ turn.ops[j] = FileOp("unlink", turn.path)

\* The path is one the function must leave alone.
LeftAlone(turn) ==
    \/ turn.path \notin DOMAIN turn.before
    \/ ~IsPngName(turn.path)
    \/ WebpNextTo(turn.path) \in DOMAIN turn.before
    \/ turn.before[turn.path] = "corrupt"

\* Every path was given its turn, in the order of the array.
AllPathsTaken ==
    /\ Len(flat) = Len(issued)
    /\ \A k \in DOMAIN flat : flat[k].path = issued[k]

CountsAddUp ==
    shortened.convertedFiles + shortened.skippedFiles + shortened.errorFiles = Len(issued)

\* C30: on return, a path was deleted only with keepOriginal false and
\* after its WebP file was written; a path that did not exist, is not a
\* .png, had a .webp next to it or could not be converted was not deleted;
\* every path of the array was processed, whatever happened to the ones
\* before it; and the three counters add up to the number of paths.
C30_DeleteOnlyConverted ==
    pc = "returned" =>
        /\ \A k \in DOMAIN flat :
              /\ Deleted(flat[k]) => ~config.keepOriginal /\ WrittenBeforeDeleted(flat[k])
              /\ LeftAlone(flat[k]) => ~Deleted(flat[k])
        /\ AllPathsTaken
        /\ CountsAddUp

\* The same for arrays of names whose extension is written in lower case.
C30_LowerCaseNames ==
    (pc = "returned" /\ \A k \in DOMAIN issued : Extname(issued[k]) = ToLowerCase(Extname(issued[k])))
        => /\ \A k \in DOMAIN flat :
                 /\ Deleted(flat[k]) => ~config.keepOriginal /\ WrittenBeforeDeleted(flat[k])
                 /\ LeftAlone(flat[k]) => ~Deleted(flat[k])
           /\ AllPathsTaken
           /\ CountsAddUp

====
